---- MODULE Spec2Model ----
(***************************************************************************)
(* Faro Fino bot (src/bot.py): the discovery-and-deduplication engine.     *)
(*                                                                         *)
(* Instants are ticks (TicksPerDay ticks to a calendar day), calendar      *)
(* dates are day ordinals, so date(t) = t \div TicksPerDay.  An optional   *)
(* value is <<>> (None / empty string) or <<x>>.                           *)
(***************************************************************************)
EXTENDS Integers, Sequences, FiniteSets, TLC

VARIABLES
    disk,         \* the content of faro_fino_config.json (CONFIG_PATH)
    config_data,  \* the module-level snapshot loaded at import (bot.py:1750)
    pass,         \* the two activations of executar_monitoramento: loop, manual
    running,      \* MonitoramentoManager.running
    task,         \* MonitoramentoManager.monitoramento_task: none, alive, cancelled
    now,          \* the clock, in ticks
    returned,     \* how often each URL appeared in a returned result list
    started,      \* how many passes got past their gates so far
    commands,     \* how many configuration commands were handled so far
    call          \* the call under study of the function-level specifications

vars == <<disk, config_data, pass, running, task, now, returned, started, commands, call>>

(***************************************************************************)
(* Bounds of the model and program constants.                              *)
(***************************************************************************)
TicksPerDay == 1
MaxTime == 4
MaxCount == 2
MaxPasses == 2
MaxCommands == 1

DIAS_FILTRO_NOTICIAS == 3
DIAS_HISTORICO_LINKS == 3
\* 1000 in the program; scaled so that the size limit is reached
MAX_LINKS_HISTORICO == 2
MAX_LINKS_POR_PAGINA == 20

None == <<>>
Some(x) == <<x>>
Today(t) == t \div TicksPerDay

(***************************************************************************)
(* URLs.  A URL is named by an identifier; UrlNetloc and UrlPath give what *)
(* urlparse returns for it.  The path is kept as the list of its           *)
(* '/'-separated pieces, so "/a/b" is <<"", "a", "b">>; two identifiers    *)
(* are two different URL strings (they differ in path, netloc or query).   *)
(***************************************************************************)
UrlIds == {"u1", "u2", "u3", "u4", "u5", "u6", "u7", "u8", "u9", "u10", "u11", "u12",
           "u13", "s0"}

UrlNetloc(u) ==
    CASE u = "u5" -> "other.com"
      [] u \in {"g1", "g1_politica", "g1_economia"} -> "g1.globo.com"
      [] u \in {"oeste", "oeste_politica", "oeste_economia"} -> "oeste.com.br"
      [] u = "h_tech" -> "tech.s.com"
      [] OTHER -> "s.com"

Base9 == <<"", "politica", "t2", "t3", "t4", "t5", "t6", "t7", "t8">>

UrlPath(u) ==
    CASE u = "u1"  -> <<"", "a", "b">>
      [] u = "u2"  -> <<"", "b", "a">>
      [] u = "u3"  -> <<"", "politica", "2025", "voto-x">>
      [] u = "u4"  -> <<"", "politica", "2025", "voto-x">>          \* ?ref=1
      [] u = "u5"  -> <<"", "politica", "2025", "voto-x">>
      [] u = "u6"  -> <<"", "politica", "2025", "voto-x-atualizada">>
      [] u = "u7"  -> <<"", "Politica", "2025", "Voto-X">>
      [] u = "u8"  -> Base9 \o <<"t9">>
      [] u = "u9"  -> Base9 \o <<"t9", "t10">>
      [] u = "u10" -> Base9 \o <<"t9", "t10", "t11">>
      [] u = "u11" -> <<"", "economia", "2025", "mercado-y">>
      [] u = "u12" -> Base9
      [] u = "u13" -> <<"", "politica">>
      [] u = "s0"  -> <<"">>                                        \* https://s.com
      [] u = "sB"  -> <<"", "home">>
      [] u = "h_poder"  -> <<"", "poder">>
      [] u = "h_pol"    -> <<"", "politica", "">>                    \* /politica/
      [] u = "h_login"  -> <<"", "login">>                           \* ?next=/mundo
      [] u = "h_tech"   -> <<"">>
      [] u = "h_esp"    -> <<"", "Esportes">>

\* parsed.query
UrlQuery(u) ==
    CASE u = "u4"      -> "ref=1"
      [] u = "h_login" -> "next=/mundo"
      [] OTHER         -> ""

\* str.lower() on one path piece
Lower(tok) ==
    CASE tok = "Politica" -> "politica"
      [] tok = "Voto-X"   -> "voto-x"
      [] tok = "Esportes" -> "esportes"
      [] OTHER            -> tok

\* len() of one path piece
TokLen(tok) ==
    CASE tok = "" -> 0
      [] tok \in {"a", "b"} -> 1
      [] tok \in {"t2", "t3", "t4", "t5", "t6", "t7", "t8", "t9"} -> 2
      [] tok \in {"t10", "t11"} -> 3
      [] tok \in {"2025", "home"} -> 4
      [] tok \in {"poder", "login"} -> 5
      [] tok \in {"voto-x", "Voto-X"} -> 6
      [] tok \in {"politica", "Politica", "economia", "Esportes"} -> 8
      [] tok = "mercado-y" -> 9
      [] tok = "voto-x-atualizada" -> 17

RECURSIVE SumLen(_)
SumLen(p) == IF p = <<>> THEN 0 ELSE TokLen(Head(p)) + SumLen(Tail(p))

\* len(parsed.path.lower()): the pieces and the slashes between them
PathLen(u) == SumLen(UrlPath(u)) + Len(UrlPath(u)) - 1

\* set(parsed.path.lower().split('/'))
PathTokens(u) == { Lower(UrlPath(u)[i]) : i \in 1..Len(UrlPath(u)) }

(***************************************************************************)
(* The history map (historico_links).  A dict keeps insertion order, and   *)
(* the size eviction depends on it, so the map is a sequence of entries    *)
(* with pairwise different url.  data_notificacao is the stored string:    *)
(* <<>> when missing or empty, <<"bad">> when fromisoformat rejects it,    *)
(* <<"iso", t>> for the ISO text of instant t.                             *)
(***************************************************************************)
Iso(t) == <<"iso", t>>
BadDate == <<"bad">>

Keys(historico) == { historico[i].url : i \in 1..Len(historico) }

Entry(url, dn, dp, secao) ==
    [url |-> url, data_notificacao |-> dn, data_publicacao |-> dp, secao |-> secao]

\* MonitoramentoManager.ja_foi_notificado
SimilarThresholdMutant(a, b) == 10 * a >= 9 * b
SimilarThreshold(a, b) == 10 * a > 9 * b

MuitoSimilar(url, url_historico) ==
    /\ PathLen(url) > 10
    /\ PathLen(url_historico) > 10
    /\ UrlNetloc(url) = UrlNetloc(url_historico)
    /\ PathTokens(url) # {}
    /\ PathTokens(url_historico) # {}
    /\ SimilarThreshold(Cardinality(PathTokens(url) \cap PathTokens(url_historico)),
                        Cardinality(PathTokens(url) \cup PathTokens(url_historico)))

ja_foi_notificado(url, historico) ==
    IF url \in Keys(historico)
    THEN TRUE
    ELSE \E i \in 1..Len(historico) : MuitoSimilar(url, historico[i].url)

adicionar_ao_historico_substitui(url, data_publicacao, secao, historico, t) ==
    <<Entry(url, Iso(t), data_publicacao, secao)>>

\* MonitoramentoManager.adicionar_ao_historico: a new key goes last, an
\* existing key keeps its place
adicionar_ao_historico(url, data_publicacao, secao, historico, t) ==
    IF url \in Keys(historico)
    THEN [i \in 1..Len(historico) |->
             IF historico[i].url = url
             THEN Entry(url, Iso(t), data_publicacao, secao)
             ELSE historico[i]]
    ELSE Append(historico, Entry(url, Iso(t), data_publicacao, secao))

\* MonitoramentoManager.eh_noticia_recente
eh_noticia_recente_mutant(data_publicacao, t) ==
    IF data_publicacao = None
    THEN TRUE
    ELSE data_publicacao[1] > Today(t) - DIAS_FILTRO_NOTICIAS

eh_noticia_recente(data_publicacao, t) ==
    IF data_publicacao = None
    THEN TRUE
    ELSE data_publicacao[1] >= Today(t) - DIAS_FILTRO_NOTICIAS

(***************************************************************************)
(* limpar_historico_antigo                                                 *)
(***************************************************************************)
\* datetime.fromisoformat on the stored string
Parseable(s) == Len(s) = 2 /\ s[1] = "iso"

\* the entries collected in links_para_remover
ParaRemover_mutant(e, t) ==
    /\ e.data_notificacao # None
    /\ Parseable(e.data_notificacao)
    /\ e.data_notificacao[2] < t - DIAS_HISTORICO_LINKS * TicksPerDay

ParaRemover(e, t) ==
    \/ e.data_notificacao = None
    \/ ~Parseable(e.data_notificacao)
    \/ e.data_notificacao[2] < t - DIAS_HISTORICO_LINKS * TicksPerDay

\* the sort, were it to put the later inserted of two equal keys first
RECURSIVE InsertDesc_instavel(_, _)
InsertDesc_instavel(s, e) ==
    IF s = <<>> THEN <<e>>
    ELSE IF Head(s).data_notificacao[2] > e.data_notificacao[2]
         THEN <<Head(s)>> \o InsertDesc_instavel(Tail(s), e)
         ELSE <<e>> \o s

\* sorted(..., key=data_notificacao, reverse=True): stable, newest first
RECURSIVE InsertDesc(_, _)
InsertDesc(s, e) ==
    IF s = <<>> THEN <<e>>
    ELSE IF Head(s).data_notificacao[2] >= e.data_notificacao[2]
         THEN <<Head(s)>> \o InsertDesc(Tail(s), e)
         ELSE <<e>> \o s

RECURSIVE SortDesc(_)
SortDesc(s) ==
    IF s = <<>> THEN <<>>
    ELSE InsertDesc(SortDesc(SubSeq(s, 1, Len(s) - 1)), s[Len(s)])

limpar_historico_antigo(historico, t) ==
    IF historico = <<>> THEN historico
    ELSE LET restantes == SelectSeq(historico, LAMBDA e : ~ParaRemover(e, t))
         IN  IF Len(restantes) > MAX_LINKS_HISTORICO
             THEN SubSeq(SortDesc(restantes), 1, MAX_LINKS_HISTORICO)
             ELSE restantes

(***************************************************************************)
(* UrlClassifier                                                           *)
(***************************************************************************)
IsDigits(tok, n) == (n = 4 /\ tok = "2025") \/ (n = 2 /\ tok \in {"06", "19"})

\* re.search('/' + w + '/', url): a piece equal to w between two slashes
HasPiece(u, w) ==
    \E i \in 2..(Len(UrlPath(u)) - 1) : UrlPath(u)[i] = w

\* re.search(r'/\d{4}/\d{2}/\d{2}/', url)
HasDatePath(u) ==
    \E i \in 2..(Len(UrlPath(u)) - 3) :
        /\ IsDigits(UrlPath(u)[i], 4)
        /\ IsDigits(UrlPath(u)[i + 1], 2)
        /\ IsDigits(UrlPath(u)[i + 2], 2)

\* PADROES_LINKS_NOTICIAS; no piece of the URLs here holds -\d{8}-
MatchesPadroes(u) ==
    \/ HasDatePath(u)
    \/ \E w \in {"noticia", "news", "artigo", "politica", "economia", "brasil", "mundo"} :
          HasPiece(u, w)

eh_url_noticia(u, dominio) ==
    IF MatchesPadroes(u) THEN TRUE
    ELSE IF dominio = "g1.globo.com"
         THEN HasDatePath(u) \/ HasPiece(u, "noticia")
         ELSE FALSE

\* '/politica' in url_lower and the like: a piece that starts with the word
identificar_secao_url(u) ==
    LET has(w) == \E i \in 2..Len(UrlPath(u)) : Lower(UrlPath(u)[i]) = w
    IN  IF has("politica") \/ has("poder") THEN "Politica"
        ELSE IF has("economia") \/ has("mercado") THEN "Economia"
        ELSE "Geral"

(***************************************************************************)
(* KeywordMatcher.  A text is a sequence of characters.                    *)
(***************************************************************************)
T_voto == <<"o", " ", "v", "o", "t", "o", " ", "p", "o", "p", "u", "l", "a", "r">>
T_devotos == <<"d", "e", "v", "o", "t", "o", "s">>

\* the characters of a keyword
KwChars(k) ==
    CASE k = "voto" -> <<"v", "o", "t", "o">>
      [] k = "Voto" -> <<"V", "o", "t", "o">>
      [] k = "to"   -> <<"t", "o">>

LowerChar(c) == IF c = "V" THEN "v" ELSE c
LowerStr(s) == [i \in 1..Len(s) |-> LowerChar(s[i])]

IsWordChar(c) == c \notin {" ", "-", ".", ","}

MatchAt(texto, k, i) ==
    /\ i + Len(k) - 1 <= Len(texto)
    /\ \A j \in 1..Len(k) : texto[i + j - 1] = k[j]

\* \b at the gap before position i
Boundary(texto, i) ==
    LET w(j) == j \in 1..Len(texto) /\ IsWordChar(texto[j])
    IN  w(i - 1) # w(i)

\* re.search(r'\b' + re.escape(k) + r'\b', texto)
SearchWord(k, texto) ==
    \E i \in 1..Len(texto) :
        Boundary(texto, i) /\ MatchAt(texto, k, i) /\ Boundary(texto, i + Len(k))

\* k in texto
Substring(k, texto) == \E i \in 1..Len(texto) : MatchAt(texto, k, i)

\* MonitoramentoManager.verificar_palavras_chave
verificar_palavras_chave_substring(texto, palavras_chave) ==
    SelectSeq(palavras_chave, LAMBDA p : Substring(LowerStr(KwChars(p)), texto))

\* the matcher with matches put at the front of the list instead of the end
RECURSIVE verificar_palavras_chave_inverte(_, _)
verificar_palavras_chave_inverte(texto, palavras_chave) ==
    IF palavras_chave = <<>> THEN <<>>
    ELSE verificar_palavras_chave_inverte(texto, Tail(palavras_chave))
         \o (IF SearchWord(LowerStr(KwChars(Head(palavras_chave))), texto)
             THEN <<Head(palavras_chave)>> ELSE <<>>)

verificar_palavras_chave(texto, palavras_chave) ==
    SelectSeq(palavras_chave, LAMBDA p : SearchWord(LowerStr(KwChars(p)), texto))

(***************************************************************************)
(* The web, as the bot sees it.  Content does not change over time.        *)
(***************************************************************************)
SiteA == "s0"
Dominio(site) == UrlNetloc(site)

\* GNews(period='3d'): the feed lists what was published in the last 3 days
PERIODO_FEED_DIAS == 3

\* google_news.get_news(palavra) at instant t: url and title+description of
\* each item; all items were published at instant 0.  The query "to" finds
\* an item whose title holds the letters only inside another word.
FeedResults(palavra, t) ==
    IF palavra \in {"voto", "Voto"} /\ t <= PERIODO_FEED_DIAS * TicksPerDay
    THEN <<[url |-> "u8", texto |-> T_voto], [url |-> "u3", texto |-> T_voto]>>
    ELSE IF palavra = "to" /\ t <= PERIODO_FEED_DIAS * TicksPerDay
    THEN <<[url |-> "u5", texto |-> T_devotos]>>
    ELSE <<>>

\* the <a href> of a page, in document order
PageLinks(page) ==
    CASE page = "s0"  -> <<"u9", "u10", "u1">>
      [] page = "sB"  -> <<"u3", "u13", "h_poder", "h_esp">>
      [] page = "u13" -> <<"u9">>
      [] page = "g1_politica" -> <<"u6", "u12">>
      [] page = "g1_economia" -> <<"u11">>
      [] OTHER        -> <<>>

\* What a fetched page offers for its date: meta, the content of the date
\* meta tags present, in the order of meta_tags_data (a stored string as in
\* the history: <<"bad">> when no format parses it, <<"iso", t>> for the
\* text of instant t); url, what the two patterns of extrair_data_da_url
\* find in the URL; marcadores, what the patterns of padroes_data find in
\* the markup, in their order.  A find is <<>> or <<[valida, d]>>: the
\* digits matched and whether they make a calendar date (day ordinal d).
Achado(valida, d) == Some([valida |-> valida, d |-> d])

\* the meta-tag loop: the date of the first content that parses
RECURSIVE DataMeta(_)
DataMeta(meta) ==
    IF meta = <<>> THEN None
    ELSE IF Parseable(Head(meta)) THEN Some(Today(Head(meta)[2]))
    ELSE DataMeta(Tail(meta))

\* extrair_data_da_url: /YYYY/MM/DD/ first, then -YYYYMMDD-; digits that
\* make no date raise, and the except returns None
extrair_data_da_url(url) ==
    IF url.barra # None
    THEN IF url.barra[1].valida THEN Some(url.barra[1].d) ELSE None
    ELSE IF url.hifen # None
    THEN IF url.hifen[1].valida THEN Some(url.hifen[1].d) ELSE None
    ELSE None

\* the padroes_data loop: the first match that makes a date
RECURSIVE DataMarcador(_)
DataMarcador(marcadores) ==
    IF marcadores = <<>> THEN None
    ELSE IF Head(marcadores).valida THEN Some(Head(marcadores).d)
    ELSE DataMarcador(Tail(marcadores))

\* the same chain with the URL consulted before the meta tags
DataDeclarada_url_primeiro(pagina) ==
    IF extrair_data_da_url(pagina.url) # None THEN extrair_data_da_url(pagina.url)
    ELSE IF DataMeta(pagina.meta) # None THEN DataMeta(pagina.meta)
    ELSE DataMarcador(pagina.marcadores)

\* extrair_metadados_pagina, the date before the fallback to today
DataDeclarada(pagina) ==
    IF DataMeta(pagina.meta) # None THEN DataMeta(pagina.meta)
    ELSE IF extrair_data_da_url(pagina.url) # None THEN extrair_data_da_url(pagina.url)
    ELSE DataMarcador(pagina.marcadores)

\* extrair_metadados_pagina, data_publicacao
DataPublicacao(pagina, t) ==
    IF DataDeclarada(pagina) = None THEN Some(Today(t)) ELSE DataDeclarada(pagina)

SemDataNaUrl == [barra |-> None, hifen |-> None]

\* the articles: u9 states no date anywhere, the others carry a meta tag
\* with instant 0
Pagina(u) ==
    [meta |-> IF u = "u9" THEN <<>> ELSE <<Iso(0)>>,
     url |-> SemDataNaUrl, marcadores |-> <<>>]

\* the date the page states (meta tag, URL or markup), if any
ArticleDate(u) == DataDeclarada(Pagina(u))

\* the cleaned, lower-cased body text
ArticleText(u) == IF u = "u11" THEN T_devotos ELSE T_voto

\* SECOES_SITES
SECOES_SITES_DOM == {"g1.globo.com", "oeste.com.br"}
SECOES_SITES(dominio) ==
    IF dominio = "g1.globo.com"
    THEN <<[nome |-> "principal", url |-> "g1"],
           [nome |-> "politica", url |-> "g1_politica"],
           [nome |-> "economia", url |-> "g1_economia"]>>
    ELSE <<[nome |-> "principal", url |-> "oeste"],
           [nome |-> "politica", url |-> "oeste_politica"],
           [nome |-> "economia", url |-> "oeste_economia"]>>

\* secoes_procurar, each padrao without its leading slash
secoes_procurar ==
    <<[secao |-> "politica",   padroes |-> <<"politica", "poder", "governo">>],
      [secao |-> "economia",   padroes |-> <<"economia", "mercado", "dinheiro", "financas">>],
      [secao |-> "brasil",     padroes |-> <<"brasil", "nacional", "pais">>],
      [secao |-> "mundo",      padroes |-> <<"mundo", "internacional", "exterior">>],
      [secao |-> "esportes",   padroes |-> <<"esportes", "esporte", "futebol">>],
      [secao |-> "tecnologia", padroes |-> <<"tecnologia", "tech", "digital">>]>>

\* the padroes a lower-cased path piece or host name starts with
Prefixos(tok) ==
    CASE tok = "politica"   -> {"politica"}
      [] tok = "poder"      -> {"poder"}
      [] tok = "economia"   -> {"economia"}
      [] tok = "mercado-y"  -> {"mercado"}
      [] tok = "esportes"   -> {"esportes", "esporte"}
      [] tok = "tech.s.com" -> {"tech"}
      [] OTHER              -> {}

\* the padroes that follow a slash inside the query string
PadroesNaQuery(q) == IF q = "next=/mundo" THEN {"mundo"} ELSE {}

\* '/' + w in parsed.path.lower()
PathContem(u, w) == \E i \in 2..Len(UrlPath(u)) : w \in Prefixos(Lower(UrlPath(u)[i]))

\* '/' + w in href.lower(), href being scheme://netloc/path?query: the
\* slash is the second one of "//", one of the path or one of the query
HrefContem(u, w) ==
    \/ w \in Prefixos(UrlNetloc(u))
    \/ PathContem(u, w)
    \/ w \in PadroesNaQuery(UrlQuery(u))

\* some padrao of the section is in the href and the href is no article URL
AceitaSecao(u, s, dominio) ==
    /\ \E k \in 1..Len(s.padroes) : HrefContem(u, s.padroes[k])
    /\ ~eh_url_noticia(u, dominio)

Nomes(secoes) == { secoes[i].nome : i \in 1..Len(secoes) }

\* the loop over the <a href> of the homepage.  An anchor is [forma, url]:
\* forma "raiz" for an href that starts with '/', "abs" for one that starts
\* with http, "outro" for any other; url is the absolute URL it stands for
RECURSIVE ProcurarSecoes(_, _, _)
ProcurarSecoes(links, secoes_encontradas, dominio) ==
    IF links = <<>> THEN secoes_encontradas
    ELSE IF Head(links).forma = "outro"
    THEN ProcurarSecoes(Tail(links), secoes_encontradas, dominio)
    ELSE LET href == Head(links).url
             novas == SelectSeq(secoes_procurar,
                                LAMBDA s : /\ s.secao \notin Nomes(secoes_encontradas)
                                           /\ AceitaSecao(href, s, dominio))
         IN  ProcurarSecoes(Tail(links),
                            secoes_encontradas
                                \o [i \in 1..Len(novas) |->
                                       [nome |-> novas[i].secao, url |-> href]],
                            dominio)

\* the map with 'principal' added only when no section was found
MapaDeSecoes_principal_se_vazio(secoes_encontradas, url_site) ==
    IF secoes_encontradas = <<>>
    THEN <<[nome |-> "principal", url |-> url_site]>>
    ELSE secoes_encontradas

\* secoes_encontradas['principal'] = url_site
MapaDeSecoes(secoes_encontradas, url_site) ==
    secoes_encontradas \o <<[nome |-> "principal", url |-> url_site]>>

\* descobrir_secoes_site on the answer to the homepage request: None for a
\* status other than 200, a timeout or an exception, else the anchors of
\* the page
descobrir_secoes(url_site, resposta) ==
    IF resposta = None THEN <<>>
    ELSE MapaDeSecoes(ProcurarSecoes(resposta[1], <<>>, Dominio(url_site)), url_site)

\* the anchors of a page of the web above, all of them absolute
Anchor(forma, url) == [forma |-> forma, url |-> url]
Hrefs(page) == [i \in 1..Len(PageLinks(page)) |-> Anchor("abs", PageLinks(page)[i])]

\* descobrir_secoes_site; {} when the fetch fails
descobrir_secoes_site(url_site, ok) ==
    descobrir_secoes(url_site, IF ok THEN Some(Hrefs(url_site)) ELSE None)

\* MonitoramentoManager.descobrir_links_noticias
descobrir_links_noticias(url_pagina, dominio, ok) ==
    IF ~ok THEN <<>>
    ELSE LET links_encontrados ==
                 SelectSeq(PageLinks(url_pagina), LAMBDA h : eh_url_noticia(h, dominio))
         IN  SubSeq(links_encontrados, 1,
                    IF Len(links_encontrados) < MAX_LINKS_POR_PAGINA
                    THEN Len(links_encontrados) ELSE MAX_LINKS_POR_PAGINA)

\* MonitoramentoManager.extrair_metadados_pagina: None when the fetch fails,
\* the current date when the page states none
extrair_metadados_pagina(url, ok, t) ==
    IF ~ok THEN None
    ELSE Some([url |-> url,
               data_publicacao |-> DataPublicacao(Pagina(url), t),
               texto |-> ArticleText(url)])

Resultado(url, palavras, secao) == [url |-> url, palavras |-> palavras, secao |-> secao]

\* MonitoramentoManager.monitorar_noticia_especifica: the history afterwards
\* and the result (None or one result)
monitorar_noticia_especifica(url_noticia, palavras_chave, historico, ok, t) ==
    LET metadados == extrair_metadados_pagina(url_noticia, ok, t)
        nada == [historico |-> historico, resultado |-> None]
    IN  IF ja_foi_notificado(url_noticia, historico) THEN nada
        ELSE IF metadados = None THEN nada
        ELSE IF ~eh_noticia_recente(metadados[1].data_publicacao, t) THEN nada
        ELSE LET palavras_encontradas ==
                     verificar_palavras_chave(metadados[1].texto, palavras_chave)
                 secao == identificar_secao_url(url_noticia)
             IN  IF palavras_encontradas = <<>> THEN nada
                 ELSE [historico |-> adicionar_ao_historico(url_noticia,
                                         metadados[1].data_publicacao, secao, historico, t),
                       resultado |-> Some(Resultado(url_noticia, palavras_encontradas, secao))]

\* buscar_noticias_google_news: falha holds the keywords whose query raises
RECURSIVE NoticiasUnicas(_, _)
NoticiasUnicas(noticias, urls_vistas) ==
    IF noticias = <<>> THEN <<>>
    ELSE IF Head(noticias).url \in urls_vistas
         THEN NoticiasUnicas(Tail(noticias), urls_vistas)
         ELSE <<Head(noticias)>> \o
              NoticiasUnicas(Tail(noticias), urls_vistas \cup {Head(noticias).url})

RECURSIVE BuscarPalavras(_, _, _, _)
BuscarPalavras(palavras, palavras_chave, falha, t) ==
    IF palavras = <<>> THEN <<>>
    ELSE LET palavra == Head(palavras)
             resultados == IF palavra \in falha THEN <<>> ELSE FeedResults(palavra, t)
             encontradas(n) ==
                 SelectSeq(palavras_chave,
                           LAMBDA p : Substring(LowerStr(KwChars(p)), LowerStr(n.texto)))
             relevantes == SelectSeq(resultados, LAMBDA n : encontradas(n) # <<>>)
         IN  [i \in 1..Len(relevantes) |->
                 Resultado(relevantes[i].url, encontradas(relevantes[i]), "Google News")]
             \o BuscarPalavras(Tail(palavras), palavras_chave, falha, t)

buscar_noticias_google_news(palavras_chave, falha, t) ==
    NoticiasUnicas(
        BuscarPalavras(SubSeq(palavras_chave, 1,
                              IF Len(palavras_chave) < 5 THEN Len(palavras_chave) ELSE 5),
                       palavras_chave, falha, t),
        {})

\* executar_monitoramento, the feed loop: history and resultados_google after
\* it.  The loop has no handler of its own: ja_foi_notificado raises on a
\* URL that urlparse rejects (url_invalida), before the item is recorded, and
\* the log line of an accepted item raises when its title is None
\* (sem_titulo), after the item was recorded and appended; either ends the
\* loop in the except of the feed block.
RECURSIVE FeedLoop(_, _, _, _, _, _)
FeedLoop(noticias_google, historico, resultados_google, t, url_invalida, sem_titulo) ==
    IF noticias_google = <<>>
    THEN [historico |-> historico, resultados_google |-> resultados_google,
          levantou |-> FALSE]
    ELSE LET noticia == Head(noticias_google)
         IN  IF noticia.url \in url_invalida
             THEN [historico |-> historico, resultados_google |-> resultados_google,
                   levantou |-> TRUE]
             ELSE IF ~ja_foi_notificado(noticia.url, historico)
             THEN IF noticia.url \in sem_titulo
                  THEN [historico |-> adicionar_ao_historico(noticia.url, None,
                                          noticia.secao, historico, t),
                        resultados_google |-> Append(resultados_google, noticia),
                        levantou |-> TRUE]
                  ELSE FeedLoop(Tail(noticias_google),
                                adicionar_ao_historico(noticia.url, None, noticia.secao,
                                                       historico, t),
                                Append(resultados_google, noticia), t,
                                url_invalida, sem_titulo)
             ELSE FeedLoop(Tail(noticias_google), historico, resultados_google, t,
                           url_invalida, sem_titulo)

(***************************************************************************)
(* Config and its file.                                                    *)
(***************************************************************************)
REDESCOBRIR_SECOES_DIAS == 7
GenericDomains == {"s.com"}
Owner == 1

DEFAULT_CONFIG ==
    [telegram_owner_id |-> None,
     palavras_chave |-> <<>>,
     sites_monitorados |-> <<>>,
     monitoramento_ativo |-> FALSE,
     ultima_verificacao |-> None,
     historico_links |-> <<>>,
     secoes_descobertas |-> [d \in GenericDomains |-> None],
     configuracao_avancada |->
         [dias_filtro_noticias |-> DIAS_FILTRO_NOTICIAS,
          redescobrir_secoes_dias |-> REDESCOBRIR_SECOES_DIAS]]

\* carregar_config with the file present and complete: the file's content
carregar_config == disk

\* The file as bytes on the disk: json.dump writes the opening brace, one
\* member per key of the dict and the closing brace; escrito is how many of
\* these pieces of dados the file holds.
ConfigKeys ==
    <<"telegram_owner_id", "palavras_chave", "sites_monitorados",
      "monitoramento_ativo", "ultima_verificacao", "historico_links",
      "secoes_descobertas", "configuracao_avancada">>
Tamanho == Len(ConfigKeys) + 2
Arquivo(config) == [dados |-> config, escrito |-> Tamanho]

\* salvar_config ended by a crash: before open(CONFIG_PATH, "w") the file is
\* untouched (n = -1); open truncates it, and json.dump has then put n
\* pieces of the new content into it
salvar_config_interrompido(arquivo, config, n) ==
    IF n < 0 THEN arquivo ELSE [dados |-> config, escrito |-> n]

\* carregar_config on a file that exists: json.load gives the content of a
\* whole document and raises on a cut one, and the except returns the
\* defaults
carregar_arquivo(arquivo) ==
    IF arquivo.escrito = Tamanho THEN arquivo.dados ELSE DEFAULT_CONFIG

\* The config as the dict it is: a function from the keys present to their
\* values.  salvar_config: a missing monitoramento_ativo is set to True,
\* then json.dump writes every key; the result is the content of the file
salvar_config_dados(config) ==
    IF "monitoramento_ativo" \in DOMAIN config
    THEN config
    ELSE config @@ ("monitoramento_ativo" :> TRUE)

\* restaurar_backup_automatico: without an owner or without a backup file
\* the config is returned as it is; else four keys are taken from the backup
restaurar_backup_automatico(config, backup) ==
    IF config.telegram_owner_id = None \/ backup = None
    THEN config
    ELSE [k \in DOMAIN config \cup DOMAIN backup[1] |->
             IF k \in DOMAIN backup[1] THEN backup[1][k] ELSE config[k]]

\* the keys missing at the top level are given their default
PreencherChaves(dados) ==
    [k \in DOMAIN dados \cup DOMAIN DEFAULT_CONFIG |->
        IF k \in DOMAIN dados THEN dados[k] ELSE DEFAULT_CONFIG[k]]

\* carregar_config on a file with content dados: the missing top-level keys
\* are filled; without an owner, keywords or sites the backup is tried,
\* which raises inside the running event loop (em_loop) and restores
\* outside of it
carregar_config_dados(dados, backup, em_loop) ==
    LET config == PreencherChaves(dados)
    IN  IF /\ \/ config.telegram_owner_id = None
              \/ config.palavras_chave = <<>>
              \/ config.sites_monitorados = <<>>
           /\ ~em_loop
        THEN restaurar_backup_automatico(config, backup)
        ELSE config

(***************************************************************************)
(* One activation of executar_monitoramento.                               *)
(***************************************************************************)
PassIds == {"loop", "manual"}
MainUrls == {"u3", "u8", "u9", "u10"}

IdlePass ==
    [pc |-> "idle", imediato |-> FALSE, config |-> DEFAULT_CONFIG,
     resultados_google |-> <<>>, resultados_sites |-> <<>>,
     site_idx |-> 0, secoes |-> <<>>, links |-> <<>>,
     resultados_finais |-> <<>>, idx |-> 0]

Busy(id) == pass[id].pc \notin {"idle"}

\* a cached map of any age is kept
PrecisaRedescobrir_so_sem_cache(cache, redescobrir_dias, t) ==
    cache = None

\* precisa_redescobrir: the cached section map is missing, or the whole days
\* since its discovery are no fewer than redescobrir_secoes_dias
PrecisaRedescobrir(cache, redescobrir_dias, t) ==
    ~(/\ cache # None
      /\ (t - cache[1].descoberto_em) \div TicksPerDay < redescobrir_dias)

\* secoes_site when no discovery is made or it found nothing
SecoesEmCache(cache, site_url) ==
    IF cache = None \/ cache[1].secoes = <<>>
    THEN <<[nome |-> "principal", url |-> site_url]>>
    ELSE cache[1].secoes

\* the merge with the site results put first
CombinarResultados_sites_primeiro(resultados_google, resultados_sites) ==
    resultados_sites \o resultados_google

\* resultados_finais: extend with the feed results, then with the site results
CombinarResultados(resultados_google, resultados_sites) ==
    resultados_google \o resultados_sites

\* executar_monitoramento from a point between two awaits up to the next
\* await: links already notified are skipped without a fetch; after the
\* last site the results are merged (the caller writes the file)
RECURSIVE Advance(_, _)
Advance(p, t) ==
    IF p.links # <<>>
    THEN IF ja_foi_notificado(Head(p.links), p.config.historico_links)
         THEN Advance([p EXCEPT !.links = Tail(@)], t)
         ELSE [p EXCEPT !.pc = "await_artigo"]
    ELSE IF p.secoes # <<>>
    THEN [p EXCEPT !.pc = "await_links"]
    ELSE IF p.site_idx < Len(p.config.sites_monitorados)
    THEN LET i == p.site_idx + 1
             site_url == p.config.sites_monitorados[i]
             dominio == Dominio(site_url)
         IN  IF dominio \in SECOES_SITES_DOM
             THEN Advance([p EXCEPT !.site_idx = i, !.secoes = SECOES_SITES(dominio)], t)
             ELSE IF PrecisaRedescobrir(
                         p.config.secoes_descobertas[dominio],
                         p.config.configuracao_avancada.redescobrir_secoes_dias, t)
             THEN [p EXCEPT !.site_idx = i, !.pc = "await_secoes"]
             ELSE Advance([p EXCEPT !.site_idx = i,
                             !.secoes = SecoesEmCache(
                                 p.config.secoes_descobertas[dominio], site_url)], t)
    ELSE [p EXCEPT !.resultados_finais =
                       CombinarResultados(p.resultados_google, p.resultados_sites),
                   !.pc = "await_report"]

\* salvar_config(config) at bot.py:1039, reached when the block ends in the merge
SaveAfterMerge(p) == IF p.pc = "await_report" THEN p.config ELSE disk

RECURSIVE Count(_, _)
Count(f, resultados) ==
    IF resultados = <<>> THEN f
    ELSE Count([f EXCEPT ![Head(resultados).url] =
                    IF @ < MaxCount THEN @ + 1 ELSE @], Tail(resultados))

\* executar_monitoramento up to its first await, were a failing feed query
\* to end the pass at once instead of being caught at bot.py:396 and 940
ExecutarInicio_sem_isolamento(config0, imediato, falha, t) ==
    LET config == [config0 EXCEPT
                     !.historico_links = limpar_historico_antigo(@, t)]
    IN  IF \/ (~imediato /\ ~config.monitoramento_ativo)
           \/ config.telegram_owner_id = None
           \/ config.palavras_chave = <<>>
        THEN IdlePass
        ELSE IF falha # {}
        THEN [IdlePass EXCEPT !.pc = "await_report", !.imediato = imediato,
                              !.config = config]
        ELSE LET feed == FeedLoop(
                             buscar_noticias_google_news(config.palavras_chave, falha, t),
                             config.historico_links, <<>>, t, {}, {})
             IN  Advance([IdlePass EXCEPT
                             !.pc = "run", !.imediato = imediato,
                             !.config = [config EXCEPT
                                            !.historico_links = feed.historico],
                             !.resultados_google = feed.resultados_google], t)

\* executar_monitoramento up to its first await, as the pass it leaves; a
\* pass whose pc is "idle" has returned at one of the gates
ExecutarInicioRaises(config0, imediato, falha, url_invalida, sem_titulo, t) ==
    LET config == [config0 EXCEPT
                     !.historico_links = limpar_historico_antigo(@, t)]
    IN  IF \/ (~imediato /\ ~config.monitoramento_ativo)
           \/ config.telegram_owner_id = None
           \/ config.palavras_chave = <<>>
        THEN IdlePass
        ELSE LET feed == FeedLoop(
                             buscar_noticias_google_news(config.palavras_chave, falha, t),
                             config.historico_links, <<>>, t, url_invalida, sem_titulo)
             IN  Advance([IdlePass EXCEPT
                             !.pc = "run", !.imediato = imediato,
                             !.config = [config EXCEPT
                                            !.historico_links = feed.historico],
                             !.resultados_google = feed.resultados_google], t)

\* the pass begun whatever the monitoring flag says
ExecutarInicio_sem_portao(config0, imediato, falha, t) ==
    ExecutarInicioRaises(config0, TRUE, falha, {}, {}, t)

\* the same with the items of the feed well formed
ExecutarInicio(config0, imediato, falha, t) ==
    ExecutarInicioRaises(config0, imediato, falha, {}, {}, t)

\* executar_monitoramento after the homepage fetch of descobrir_secoes_site
AposSecoes(p, ok, t) ==
    LET site_url == p.config.sites_monitorados[p.site_idx]
        dominio == Dominio(site_url)
        secoes_encontradas == descobrir_secoes_site(site_url, ok)
        config == IF secoes_encontradas # <<>>
                  THEN [p.config EXCEPT !.secoes_descobertas[dominio] =
                           Some([secoes |-> secoes_encontradas,
                                 descoberto_em |-> t])]
                  ELSE p.config
        secoes_site == IF secoes_encontradas # <<>>
                       THEN secoes_encontradas
                       ELSE SecoesEmCache(p.config.secoes_descobertas[dominio],
                                          site_url)
    IN  Advance([p EXCEPT !.pc = "run", !.config = config,
                          !.secoes = secoes_site], t)

\* executar_monitoramento after the section-page fetch of descobrir_links_noticias
AposLinks(p, ok, t) ==
    LET dominio == Dominio(p.config.sites_monitorados[p.site_idx])
        links_noticias == descobrir_links_noticias(Head(p.secoes).url, dominio, ok)
    IN  Advance([p EXCEPT !.pc = "run", !.secoes = Tail(@),
                          !.links = links_noticias], t)

\* executar_monitoramento after the article fetch of monitorar_noticia_especifica
AposArtigo(p, ok, t) ==
    LET url == Head(p.links)
        r == monitorar_noticia_especifica(url, p.config.palavras_chave,
                                          p.config.historico_links, ok, t)
    IN  Advance([p EXCEPT !.pc = "run", !.links = Tail(@),
                          !.config.historico_links = r.historico,
                          !.resultados_sites = @ \o r.resultado], t)

\* executar_monitoramento from its first await to the merge of the results,
\* every site fetch succeeding (ok) or every one failing
RECURSIVE ExecutarSites(_, _, _)
ExecutarSites(p, ok, t) ==
    CASE p.pc = "await_secoes" -> ExecutarSites(AposSecoes(p, ok, t), ok, t)
      [] p.pc = "await_links"  -> ExecutarSites(AposLinks(p, ok, t), ok, t)
      [] p.pc = "await_artigo" -> ExecutarSites(AposArtigo(p, ok, t), ok, t)
      [] OTHER                 -> p

\* the fetch a suspended pass is waiting for
Pedido(p) ==
    [tipo |-> p.pc,
     pagina |-> CASE p.pc = "await_secoes" -> p.config.sites_monitorados[p.site_idx]
                  [] p.pc = "await_links"  -> Head(p.secoes).url
                  [] p.pc = "await_artigo" -> Head(p.links)]

\* the pass, were a failing fetch to end the work on the sites
Passo_falha_propaga(p, falhas, t) ==
    IF Pedido(p) \in falhas
    THEN [p EXCEPT !.pc = "await_report", !.links = <<>>, !.secoes = <<>>,
                   !.site_idx = Len(p.config.sites_monitorados),
                   !.resultados_finais = p.resultados_google \o p.resultados_sites]
    ELSE CASE p.pc = "await_secoes" -> AposSecoes(p, TRUE, t)
           [] p.pc = "await_links"  -> AposLinks(p, TRUE, t)
           [] p.pc = "await_artigo" -> AposArtigo(p, TRUE, t)

\* the pass after the fetch it waits for returns; the fetches in falhas time
\* out, raise or answer with a status other than 200
Passo(p, falhas, t) ==
    CASE p.pc = "await_secoes" -> AposSecoes(p, Pedido(p) \notin falhas, t)
      [] p.pc = "await_links"  -> AposLinks(p, Pedido(p) \notin falhas, t)
      [] p.pc = "await_artigo" -> AposArtigo(p, Pedido(p) \notin falhas, t)

\* executar_monitoramento from its first await to the merge of the results
RECURSIVE ExecutarSitesFalhas(_, _, _)
ExecutarSitesFalhas(p, falhas, t) ==
    IF p.pc \in {"await_secoes", "await_links", "await_artigo"}
    THEN ExecutarSitesFalhas(Passo(p, falhas, t), falhas, t)
    ELSE p

\* the fetches it makes on the way, in order
RECURSIVE Visitas(_, _, _)
Visitas(p, falhas, t) ==
    IF p.pc \in {"await_secoes", "await_links", "await_artigo"}
    THEN <<Pedido(p)>> \o Visitas(Passo(p, falhas, t), falhas, t)
    ELSE <<>>

\* executar_monitoramento up to the merge of the results
ExecutarAteMerge(config0, imediato, falha, ok, t) ==
    ExecutarSites(ExecutarInicio(config0, imediato, falha, t), ok, t)

\* The checkpoints of a pass, as the sequence of what it does to the file
\* and to the chat: "descoberta" for a discovery that found sections,
\* "salvar" for a salvar_config, "relatorio" for the scan report and
\* "notificacoes" for enviar_notificacoes.
RECURSIVE GravacoesSites(_, _, _)
GravacoesSites(p, ok, t) ==
    CASE p.pc = "await_secoes" ->
             (IF descobrir_secoes_site(p.config.sites_monitorados[p.site_idx], ok) # <<>>
              THEN <<"descoberta", "salvar">> ELSE <<>>)
             \o GravacoesSites(AposSecoes(p, ok, t), ok, t)
      [] p.pc = "await_links"  -> GravacoesSites(AposLinks(p, ok, t), ok, t)
      [] p.pc = "await_artigo" -> GravacoesSites(AposArtigo(p, ok, t), ok, t)
      [] OTHER                 -> <<>>

\* the end of the pass were the file written only after the notifications
FimDoPasse_uma_gravacao(p) ==
    <<"relatorio">>
    \o (IF p.resultados_finais # <<>> THEN <<"notificacoes">> ELSE <<>>)
    \o <<"salvar">>

\* executar_monitoramento from the merge of the results to its return
FimDoPasse(p) ==
    <<"salvar", "relatorio">>
    \o (IF p.resultados_finais # <<>> THEN <<"notificacoes">> ELSE <<>>)
    \o <<"salvar">>

\* executar_monitoramento run to its return; the gates return before any
\* salvar_config
Gravacoes(config0, imediato, falha, ok, t) ==
    LET p0 == ExecutarInicio(config0, imediato, falha, t)
    IN  IF p0.pc = "idle" THEN <<>>
        ELSE GravacoesSites(p0, ok, t) \o FimDoPasse(ExecutarSites(p0, ok, t))

\* a pass begins: executar_monitoramento up to its first await
PassBegin(id, imediato, falha) ==
    \E p \in {ExecutarInicio(carregar_config, imediato, falha, now)} :
        IF p.pc = "idle"
        THEN /\ pass' = [pass EXCEPT ![id] = IdlePass]
             /\ UNCHANGED <<disk, returned, started>>
        ELSE /\ started < MaxPasses
             /\ started' = started + 1
             /\ pass' = [pass EXCEPT ![id] = p]
             /\ disk' = SaveAfterMerge(p)
             /\ UNCHANGED returned

\* loop_monitoramento: one more turn of `while self.running`
LoopIteration ==
    /\ task = "alive"
    /\ running
    /\ pass["loop"].pc = "idle"
    /\ \E falha \in {{}, {"voto"}} : PassBegin("loop", FALSE, falha)
    /\ UNCHANGED <<config_data, running, task, now, commands, call>>

\* verificar_proprietario
verificar_proprietario_em(config, user_id) ==
    config.telegram_owner_id = None
    \/ config.telegram_owner_id = Some(user_id)

verificar_proprietario(user_id) == verificar_proprietario_em(carregar_config, user_id)

\* a handler runs to completion before the next update is taken
HandlerFree == pass["manual"].pc = "idle"

\* verificar_command up to its first reply
VerificarCommand ==
    /\ HandlerFree
    /\ verificar_proprietario(Owner)
    /\ carregar_config.palavras_chave # <<>>
    /\ started < MaxPasses
    /\ pass' = [pass EXCEPT !["manual"] = [IdlePass EXCEPT !.pc = "await_reply"]]
    /\ UNCHANGED <<disk, config_data, running, task, now, returned, started, commands, call>>

\* verificar_command: executar_monitoramento(executar_imediatamente=True)
ManualBegin ==
    /\ pass["manual"].pc = "await_reply"
    /\ \E falha \in {{}, {"voto"}} : PassBegin("manual", TRUE, falha)
    /\ UNCHANGED <<config_data, running, task, now, commands, call>>

\* the homepage fetch of descobrir_secoes_site returns
SecoesFetched(id) ==
    /\ pass[id].pc = "await_secoes"
    /\ \E ok \in BOOLEAN :
        \E q \in {AposSecoes(pass[id], ok, now)} :
            /\ pass' = [pass EXCEPT ![id] = q]
            /\ disk' = IF ok THEN q.config ELSE SaveAfterMerge(q)
    /\ UNCHANGED <<config_data, running, task, now, returned, started, commands, call>>

\* the section-page fetch of descobrir_links_noticias returns
LinksFetched(id) ==
    /\ pass[id].pc = "await_links"
    /\ \E ok \in BOOLEAN :
        \E q \in {AposLinks(pass[id], ok, now)} :
            /\ pass' = [pass EXCEPT ![id] = q]
            /\ disk' = SaveAfterMerge(q)
    /\ UNCHANGED <<config_data, running, task, now, returned, started, commands, call>>

\* the article fetch of monitorar_noticia_especifica returns
ArtigoFetched(id) ==
    /\ pass[id].pc = "await_artigo"
    /\ \E ok \in BOOLEAN :
        \E q \in {AposArtigo(pass[id], ok, now)} :
            /\ pass' = [pass EXCEPT ![id] = q]
            /\ disk' = SaveAfterMerge(q)
    /\ UNCHANGED <<config_data, running, task, now, returned, started, commands, call>>

\* the config of the last salvar_config of a pass (bot.py:1079-1080)
ConfigFinal(p, t) == [p.config EXCEPT !.ultima_verificacao = Iso(t)]

\* executar_monitoramento from the last notification to its return
Finalize(id, p) ==
    LET config == ConfigFinal(p, now)
    IN  /\ disk' = config
        /\ returned' = Count(returned, p.resultados_finais)
        /\ pass' = [pass EXCEPT ![id] = IdlePass]

\* the send of the scan report returns
ReportSent(id) ==
    /\ pass[id].pc = "await_report"
    /\ IF pass[id].resultados_finais # <<>>
       THEN /\ pass' = [pass EXCEPT ![id].pc = "await_send", ![id].idx = 1]
            /\ UNCHANGED <<disk, returned>>
       ELSE Finalize(id, pass[id])
    /\ UNCHANGED <<config_data, running, task, now, started, commands, call>>

\* enviar_notificacoes: the send of result idx returns, or raises
SendDone(id) ==
    /\ pass[id].pc = "await_send"
    /\ \E ok \in BOOLEAN :
        LET p == pass[id]
        IN  IF ok /\ p.idx < Len(p.resultados_finais)
            THEN /\ pass' = [pass EXCEPT ![id].idx = @ + 1]
                 /\ UNCHANGED <<disk, returned>>
            ELSE Finalize(id, p)
    /\ UNCHANGED <<config_data, running, task, now, started, commands, call>>

\* enviar_notificacoes as one call: the results for which send_message is
\* invoked, in order, when the sends at the positions falhas raise; the try
\* encloses the whole for loop, so an exception leaves the loop
RECURSIVE Enviados(_, _, _)
Enviados(resultados, i, falhas) ==
    IF resultados = <<>> THEN <<>>
    ELSE IF i \in falhas THEN <<Head(resultados)>>
    ELSE <<Head(resultados)>> \o Enviados(Tail(resultados), i + 1, falhas)

enviar_notificacoes(resultados, falhas) == Enviados(resultados, 1, falhas)

(***************************************************************************)
(* Command handlers.                                                       *)
(***************************************************************************)
Items == {SiteA}
IsUrlItem(item) == item \in {SiteA, "sB"}

InSeq(x, s) == \E i \in 1..Len(s) : s[i] = x

\* item.strip() on one comma-separated piece of the message
strip(pedaco) ==
    CASE pedaco = " voto " -> "voto"
      [] pedaco = " "      -> ""
      [] OTHER             -> pedaco

\* [item.strip() for item in texto.split(',') if item.strip()]
ItensDoTexto(pedacos) ==
    SelectSeq([i \in 1..Len(pedacos) |-> strip(pedacos[i])], LAMBDA x : x # "")

\* one turn of the loop of adicionar_itens without the membership test
AdicionarItem_sem_teste(config, item) ==
    IF IsUrlItem(item)
    THEN [config EXCEPT !.sites_monitorados = Append(@, item)]
    ELSE [config EXCEPT !.palavras_chave = Append(@, item)]

\* one turn of the loop of adicionar_itens
AdicionarItem(config, item) ==
    IF IsUrlItem(item)
    THEN IF InSeq(item, config.sites_monitorados) THEN config
         ELSE [config EXCEPT !.sites_monitorados = Append(@, item)]
    ELSE IF InSeq(item, config.palavras_chave) THEN config
         ELSE [config EXCEPT !.palavras_chave = Append(@, item)]

\* adicionar_itens: the config after the loop over the items
RECURSIVE adicionar_itens(_, _)
adicionar_itens(config, itens) ==
    IF itens = <<>> THEN config
    ELSE adicionar_itens(AdicionarItem(config, Head(itens)), Tail(itens))

\* list.remove(x): the first element equal to x is taken out
RECURSIVE RemoverPrimeiro(_, _)
RemoverPrimeiro(s, x) ==
    IF s = <<>> THEN <<>>
    ELSE IF Head(s) = x THEN Tail(s)
    ELSE <<Head(s)>> \o RemoverPrimeiro(Tail(s), x)

\* one turn of the loop of remover_itens
RemoverItem(config, item) ==
    IF IsUrlItem(item)
    THEN IF InSeq(item, config.sites_monitorados)
         THEN [config EXCEPT !.sites_monitorados = RemoverPrimeiro(@, item)]
         ELSE config
    ELSE IF InSeq(item, config.palavras_chave)
         THEN [config EXCEPT !.palavras_chave = RemoverPrimeiro(@, item)]
         ELSE config

\* remover_itens: the config after the loop over the items
RECURSIVE remover_itens(_, _)
remover_itens(config, itens) ==
    IF itens = <<>> THEN config
    ELSE remover_itens(RemoverItem(config, Head(itens)), Tail(itens))

\* adicionar_itens with one item
AdicionarItens(item) ==
    /\ HandlerFree
    /\ commands < MaxCommands
    /\ commands' = commands + 1
    /\ verificar_proprietario(Owner)
    /\ disk' = adicionar_itens(carregar_config, <<item>>)
    /\ UNCHANGED <<config_data, pass, running, task, now, returned, started, call>>

\* monitoramento_command, with iniciar_monitoramento and parar_monitoramento,
\* as one of up to n commands
MonitoramentoCommandAte(n) ==
    /\ HandlerFree
    /\ commands < n
    /\ commands' = commands + 1
    /\ verificar_proprietario(Owner)
    /\ carregar_config.palavras_chave # <<>>
    /\ LET novo_status == ~carregar_config.monitoramento_ativo
       IN  /\ disk' = [carregar_config EXCEPT !.monitoramento_ativo = novo_status]
           /\ running' = novo_status
           /\ IF ~novo_status /\ running /\ task = "alive"
              THEN /\ task' = "cancelled"
                   /\ pass' = [pass EXCEPT !["loop"] = IdlePass]
              ELSE UNCHANGED <<task, pass>>
    /\ UNCHANGED <<config_data, now, returned, started, call>>

MonitoramentoCommand == MonitoramentoCommandAte(MaxCommands)

\* reset_historico_command
ResetHistoricoCommand ==
    /\ HandlerFree
    /\ commands < MaxCommands
    /\ commands' = commands + 1
    /\ verificar_proprietario(Owner)
    /\ disk' = [carregar_config EXCEPT !.historico_links = <<>>]
    /\ UNCHANGED <<config_data, pass, running, task, now, returned, started, call>>

\* time passes; a tick is half a day and a pass lasts minutes, so the clock
\* is stepped between passes
Tick ==
    /\ now < MaxTime
    /\ \A id \in PassIds : ~Busy(id)
    /\ now' = now + 1
    /\ UNCHANGED <<disk, config_data, pass, running, task, returned, started, commands, call>>

(***************************************************************************)
(* The bot: started with a config file left by an earlier run.             *)
(***************************************************************************)
NoCall == [op |-> "none"]

InitialFiles ==
    { [DEFAULT_CONFIG EXCEPT !.telegram_owner_id = Some(Owner),
                             !.palavras_chave = <<"voto">>,
                             !.sites_monitorados = sites,
                             !.monitoramento_ativo = ativo] :
        sites \in {<<>>, <<SiteA>>}, ativo \in {TRUE} }

Init ==
    /\ disk \in InitialFiles
    /\ config_data = disk
    /\ pass = [id \in PassIds |-> IdlePass]
    /\ running = disk.monitoramento_ativo
    /\ task = IF disk.monitoramento_ativo THEN "alive" ELSE "none"
    /\ now = 0
    /\ returned = [u \in MainUrls |-> 0]
    /\ started = 0
    /\ commands = 0
    /\ call = NoCall

Next ==
    \/ Tick
    \/ LoopIteration
    \/ VerificarCommand
    \/ ManualBegin
    \/ \E id \in PassIds : SecoesFetched(id)
    \/ \E id \in PassIds : LinksFetched(id)
    \/ \E id \in PassIds : ArtigoFetched(id)
    \/ \E id \in PassIds : ReportSent(id)
    \/ \E id \in PassIds : SendDone(id)
    \/ \E item \in Items : AdicionarItens(item)
    \/ MonitoramentoCommand
    \/ ResetHistoricoCommand

Spec == Init /\ [][Next]_vars

(***************************************************************************)
(* The bot left alone: the monitoring loop is the only activity.          *)
(***************************************************************************)
NextLoop ==
    \/ Tick
    \/ LoopIteration
    \/ SecoesFetched("loop")
    \/ LinksFetched("loop")
    \/ ArtigoFetched("loop")
    \/ ReportSent("loop")
    \/ SendDone("loop")

SpecLoop == Init /\ [][NextLoop]_vars

(***************************************************************************)
(* The loop with a pass that raises: executar_monitoramento raises an       *)
(* Exception outside its own handlers, before its first await or after its  *)
(* last one, and loop_monitoramento catches it and sleeps 60 seconds.       *)
(***************************************************************************)
\* loop_monitoramento without the except clause: the exception ends the task
loop_monitoramento_sem_except == [task |-> "finished", pass |-> IdlePass]

\* loop_monitoramento, except Exception: the task goes on and sleeps
loop_monitoramento_except ==
    [task |-> "alive", pass |-> [IdlePass EXCEPT !.pc = "cooldown"]]

ExecutarRaises ==
    /\ task = "alive"
    /\ \/ /\ pass["loop"].pc = "idle"
          /\ running
          /\ started < MaxPasses
          /\ started' = started + 1
       \/ /\ pass["loop"].pc \in {"await_report", "await_send"}
          /\ UNCHANGED started
    /\ task' = loop_monitoramento_except.task
    /\ pass' = [pass EXCEPT !["loop"] = loop_monitoramento_except.pass]
    /\ UNCHANGED <<disk, config_data, running, now, returned, commands, call>>

\* asyncio.sleep(60) returns and the while condition is read again
CooldownOver ==
    /\ task = "alive"
    /\ pass["loop"].pc = "cooldown"
    /\ pass' = [pass EXCEPT !["loop"] = IdlePass]
    /\ UNCHANGED <<disk, config_data, running, task, now, returned, started,
                   commands, call>>

NextLoopFair ==
    \/ NextLoop
    \/ ExecutarRaises
    \/ CooldownOver

\* ENABLED <<LoopIteration>>_vars and ENABLED <<ArtigoFetched("loop")>>_vars
\* written out: with the loop alone the gates of executar_monitoramento are
\* open, so a turn of the loop begins a pass whenever the bound allows one
LoopIterationEnabled ==
    /\ task = "alive"
    /\ running
    /\ pass["loop"].pc = "idle"
    /\ started < MaxPasses
ArtigoFetchedEnabled == pass["loop"].pc = "await_artigo"

\* WF_vars(LoopIteration) and WF_vars(ArtigoFetched("loop")) in terms of them
FairLoopIteration ==
    ([]<>(~LoopIterationEnabled)) \/ ([]<><<LoopIteration>>_vars)
FairArtigoFetched ==
    ([]<>(~ArtigoFetchedEnabled)) \/ ([]<><<ArtigoFetched("loop")>>_vars)

\* every await of the task returns: the fetches and sends are bounded by
\* timeouts, the sleeps by their length, and the event loop resumes the task
SpecLoopFair ==
    /\ Init
    /\ [][NextLoopFair]_vars
    /\ FairLoopIteration
    /\ FairArtigoFetched
    /\ WF_vars(CooldownOver)
    /\ WF_vars(SecoesFetched("loop"))
    /\ WF_vars(LinksFetched("loop"))
    /\ WF_vars(ReportSent("loop"))
    /\ WF_vars(SendDone("loop"))

(***************************************************************************)
(* The loop and the /monitoramento command: the bot starts with monitoring *)
(* active or inactive, and the owner switches it up to MaxAlternancias     *)
(* times.  main creates the loop's task only when the config read at       *)
(* import has monitoramento_ativo set.                                     *)
(***************************************************************************)
MaxAlternancias == 2

InitAtivacao ==
    /\ disk \in { [f EXCEPT !.monitoramento_ativo = ativo] :
                    f \in InitialFiles, ativo \in BOOLEAN }
    /\ config_data = disk
    /\ pass = [id \in PassIds |-> IdlePass]
    /\ running = disk.monitoramento_ativo
    /\ task = IF disk.monitoramento_ativo THEN "alive" ELSE "none"
    /\ now = 0
    /\ returned = [u \in MainUrls |-> 0]
    /\ started = 0
    /\ commands = 0
    /\ call = NoCall

NextAtivacao ==
    \/ NextLoop
    \/ MonitoramentoCommandAte(MaxAlternancias)

\* the awaits of the loop's task return and the loop takes its turns, as
\* in SpecLoopFair; the owner's commands are under no obligation
SpecAtivacaoFair ==
    /\ InitAtivacao
    /\ [][NextAtivacao]_vars
    /\ FairLoopIteration
    /\ FairArtigoFetched
    /\ WF_vars(SecoesFetched("loop"))
    /\ WF_vars(LinksFetched("loop"))
    /\ WF_vars(ReportSent("loop"))
    /\ WF_vars(SendDone("loop"))

(***************************************************************************)
(* Single calls: each action applies one function of the program to        *)
(* arguments drawn from the sets below and records the call.               *)
(***************************************************************************)
MaxHist == 2

SeqsUpTo(S, n) == UNION { [1..k -> S] : k \in 0..n }
Distinct(s) == \A i, j \in 1..Len(s) : i # j => s[i] # s[j]

\* histories whose keys are any URLs, all notified at instant 0
HistoricosDeUrls ==
    { [i \in 1..Len(s) |-> Entry(s[i], Iso(0), None, "principal")] :
        s \in { x \in SeqsUpTo(UrlIds, MaxHist) : Distinct(x) } }

\* histories whose data_notificacao is missing, malformed or any instant
Datas == {None, BadDate} \cup { Iso(t) : t \in 0..MaxTime }
KeyOrder == <<"u1", "u3", "u8", "u11", "u5", "u6">>
HistoricosDatados ==
    { [i \in 1..Len(d) |-> Entry(KeyOrder[i], d[i], Some(0), "principal")] :
        d \in SeqsUpTo(Datas, MAX_LINKS_HISTORICO + 1) }

\* histories a pass may find: empty or one article notified at instant 0
HistoricosDePasse ==
    {<<>>} \cup { <<Entry(u, Iso(0), None, "principal")>> : u \in MainUrls }

Jun20 == 20 * TicksPerDay
DatasPublicacao ==
    {None} \cup { Some(d) : d \in (0 .. Today(MaxTime) + 1) \cup {16, 17} }

\* nothing else moves
CallUnchanged ==
    UNCHANGED <<disk, config_data, pass, running, task, now, returned,
                started, commands>>

CallJaFoiNotificado ==
    /\ call = NoCall
    /\ \E url \in UrlIds, historico \in HistoricosDeUrls :
        call' = [op |-> "ja_foi_notificado", url |-> url, historico |-> historico,
                 resultado |-> ja_foi_notificado(url, historico)]
    /\ CallUnchanged

CallLimparHistorico ==
    /\ call = NoCall
    /\ \E historico \in HistoricosDatados, t \in 0..MaxTime :
        call' = [op |-> "limpar_historico_antigo", historico |-> historico, t |-> t,
                 resultado |-> limpar_historico_antigo(historico, t)]
    /\ CallUnchanged

CallEhNoticiaRecente ==
    /\ call = NoCall
    /\ \E data_publicacao \in DatasPublicacao, t \in (0..MaxTime) \cup {Jun20} :
        call' = [op |-> "eh_noticia_recente", data_publicacao |-> data_publicacao,
                 t |-> t, resultado |-> eh_noticia_recente(data_publicacao, t)]
    /\ CallUnchanged

CallMonitorarNoticia ==
    /\ call = NoCall
    /\ \E url \in {"u3", "u9", "u10", "u11"}, historico \in HistoricosDePasse,
          ok \in BOOLEAN, t \in 0..MaxTime :
        call' = [op |-> "monitorar_noticia_especifica", url |-> url,
                 historico |-> historico, ok |-> ok, t |-> t,
                 resultado |-> monitorar_noticia_especifica(
                                   url, <<"voto">>, historico, ok, t)]
    /\ CallUnchanged

\* one whole pass with no handler and no other pass beside it
\* (every Call action is the one call of its behaviour)
CallExecutarMonitoramento ==
    /\ call = NoCall
    /\ \E f \in InitialFiles, historico \in HistoricosDePasse,
          falha \in {{}, {"voto"}}, ok \in BOOLEAN, t \in 0..MaxTime :
        LET config0 == [f EXCEPT !.historico_links = historico]
        IN  call' = [op |-> "executar_monitoramento", config0 |-> config0,
                     falha |-> falha, ok |-> ok, t |-> t,
                     resultado |-> ExecutarAteMerge(config0, FALSE, falha, ok, t)]
    /\ CallUnchanged

\* texts: the two of the examples, and every short text over a few
\* characters, among them an upper-case letter and two separators
MaxTextLen == 4
Textos == {T_voto, T_devotos} \cup SeqsUpTo({"t", "o", "V", " ", "-"}, MaxTextLen)
\* keyword lists as a caller may pass them, a keyword named twice included
ListasComRepeticao == SeqsUpTo({"voto", "Voto", "to"}, 2)
ListasDePalavras ==
    { x \in SeqsUpTo({"voto", "Voto", "to"}, 2) : Distinct(x) }

CallVerificarPalavrasChave ==
    /\ call = NoCall
    /\ \E texto \in Textos, palavras_chave \in ListasComRepeticao :
        call' = [op |-> "verificar_palavras_chave", texto |-> texto,
                 palavras_chave |-> palavras_chave,
                 resultado |-> verificar_palavras_chave(texto, palavras_chave)]
    /\ CallUnchanged

\* pages: up to two date meta tags, each pattern of the URL and up to two
\* markup patterns finding nothing, digits that are no date, or a date
Jun19 == Jun20 \div TicksPerDay - 1
Achados == {Achado(FALSE, 0), Achado(TRUE, 1), Achado(TRUE, Jun19)}
Paginas ==
    { [meta |-> m, url |-> [barra |-> b, hifen |-> h], marcadores |-> k] :
        m \in SeqsUpTo({BadDate, Iso(0), Iso(MaxTime)}, 2),
        b \in {None} \cup Achados, h \in {None} \cup Achados,
        k \in SeqsUpTo({Achado(FALSE, 0)[1], Achado(TRUE, 2)[1]}, 2) }

CallExtrairData ==
    /\ call = NoCall
    /\ \E pagina \in Paginas, t \in {0, MaxTime} :
        call' = [op |-> "extrair_metadados_pagina", pagina |-> pagina, t |-> t,
                 resultado |-> DataPublicacao(pagina, t)]
    /\ CallUnchanged

\* a crash at any point of salvar_config(novo) over the file of antigo,
\* followed by carregar_config
CallSalvarConfigInterrompido ==
    /\ call = NoCall
    /\ \E f \in InitialFiles, h1 \in HistoricosDePasse, h2 \in HistoricosDePasse,
          n \in -1..Tamanho :
        LET antigo == [f EXCEPT !.historico_links = h1]
            novo == [f EXCEPT !.historico_links = h2]
            arquivo == salvar_config_interrompido(Arquivo(antigo), novo, n)
        IN  call' = [op |-> "salvar_config", antigo |-> antigo, novo |-> novo,
                     n |-> n, arquivo |-> arquivo,
                     resultado |-> carregar_arquivo(arquivo)]
    /\ CallUnchanged

\* a pass during which salvar_config cannot write, and the pass after it:
\* open raises and the file stays as it was (n = -1), or the write raises
\* after n pieces; salvar_config logs the exception and returns
CallPasseSemGravar ==
    /\ call = NoCall
    /\ \E f \in InitialFiles, historico \in HistoricosDePasse, ok \in BOOLEAN,
          t \in 0..MaxTime, n \in -1..(Tamanho - 1) :
        LET config0 == [f EXCEPT !.historico_links = historico]
            primeiro == ExecutarAteMerge(config0, FALSE, {}, ok, t)
            arquivo == salvar_config_interrompido(Arquivo(config0),
                                                  ConfigFinal(primeiro, t), n)
            segundo == ExecutarAteMerge(carregar_arquivo(arquivo), FALSE, {}, ok, t)
        IN  call' = [op |-> "passe_sem_gravar", config0 |-> config0, ok |-> ok,
                     t |-> t, n |-> n, primeiro |-> primeiro, arquivo |-> arquivo,
                     segundo |-> segundo]
    /\ CallUnchanged

\* lists of results as a pass returns them, and the sends that raise
ListasDeResultados ==
    { [i \in 1..Len(x) |-> Resultado(x[i], <<"voto">>, "Google News")] :
        x \in { y \in SeqsUpTo(MainUrls, MaxHist) : Distinct(y) } }

CallEnviarNotificacoes ==
    /\ call = NoCall
    /\ \E resultados \in ListasDeResultados, falhas \in SUBSET (1..MaxHist) :
        call' = [op |-> "enviar_notificacoes", resultados |-> resultados,
                 falhas |-> falhas,
                 enviados |-> enviar_notificacoes(resultados, falhas)]
    /\ CallUnchanged

CallBuscarNoticias ==
    /\ call = NoCall
    /\ \E palavras_chave \in ListasDePalavras, t \in {0, MaxTime} :
        call' = [op |-> "buscar_noticias_google_news",
                 palavras_chave |-> palavras_chave, t |-> t,
                 resultado |-> buscar_noticias_google_news(palavras_chave, {}, t)]
    /\ CallUnchanged

\* one whole pass and what it writes; the file may have monitoring switched
\* off, which a pass of the loop does not get past
CallGravacoes ==
    /\ call = NoCall
    /\ \E f \in InitialFiles, historico \in HistoricosDePasse, ativo \in BOOLEAN,
          falha \in {{}, {"voto"}}, ok \in BOOLEAN, t \in 0..MaxTime :
        LET config0 == [f EXCEPT !.historico_links = historico,
                                 !.monitoramento_ativo = ativo]
        IN  call' = [op |-> "gravacoes", config0 |-> config0, falha |-> falha,
                     ok |-> ok, t |-> t,
                     passe |-> ExecutarAteMerge(config0, FALSE, falha, ok, t),
                     gravacoes |-> Gravacoes(config0, FALSE, falha, ok, t)]
    /\ CallUnchanged

\* one whole pass whose feed holds an item with a URL that urlparse rejects
\* or with no title
FeedUrls == {"u8", "u3"}
CallFeedRaises ==
    /\ call = NoCall
    /\ \E f \in InitialFiles, historico \in HistoricosDePasse,
          url_invalida \in SUBSET FeedUrls, sem_titulo \in SUBSET FeedUrls,
          ok \in BOOLEAN, t \in {0, MaxTime} :
        LET config0 == [f EXCEPT !.historico_links = historico]
            limpo == limpar_historico_antigo(historico, t)
            feed == FeedLoop(buscar_noticias_google_news(f.palavras_chave, {}, t),
                             limpo, <<>>, t, url_invalida, sem_titulo)
        IN  call' = [op |-> "feed_raises", config0 |-> config0,
                     url_invalida |-> url_invalida, sem_titulo |-> sem_titulo,
                     ok |-> ok, t |-> t, antes |-> limpo,
                     levantou |-> feed.levantou,
                     passe |-> ExecutarSites(
                                   ExecutarInicioRaises(config0, FALSE, {}, url_invalida,
                                                        sem_titulo, t), ok, t)]
    /\ CallUnchanged

\* one whole pass over one or two sites in which up to MaxFalhas fetches fail
MaxFalhas == 2
Pedidos ==
    {[tipo |-> "await_secoes", pagina |-> SiteA]}
    \cup { [tipo |-> "await_links", pagina |-> pg] :
             pg \in {SiteA, "g1", "g1_politica", "g1_economia"} }
    \cup { [tipo |-> "await_artigo", pagina |-> u] : u \in {"u9", "u10", "u1"} }
ListasDeSites == {<<SiteA>>, <<SiteA, "g1">>, <<"g1", SiteA>>}

CallPasseComFalhas ==
    /\ call = NoCall
    /\ \E f \in InitialFiles, sites \in ListasDeSites,
          historico \in HistoricosDePasse, falha \in {{}, {"voto"}},
          falhas \in { x \in SUBSET Pedidos : Cardinality(x) <= MaxFalhas },
          t \in {0, MaxTime} :
        LET config0 == [f EXCEPT !.historico_links = historico,
                                 !.sites_monitorados = sites]
            p0 == ExecutarInicio(config0, FALSE, falha, t)
        IN  call' = [op |-> "passe_com_falhas", config0 |-> config0,
                     falha |-> falha, falhas |-> falhas, t |-> t,
                     antes |-> p0.config.historico_links,
                     visitas |-> Visitas(p0, falhas, t),
                     passe |-> ExecutarSitesFalhas(p0, falhas, t)]
    /\ CallUnchanged

\* the answers to the homepage request of descobrir_secoes_site: a failure,
\* or a page with up to MaxAnchors anchors: a relative href, an article, two
\* politics hubs, a hub address with a trailing slash, a login link whose
\* query names a section, a subdomain and a hub in capitals
MaxAnchors == 3
Ancoras ==
    {Anchor("outro", "u1"), Anchor("abs", "u3"), Anchor("raiz", "u13"),
     Anchor("raiz", "h_poder"), Anchor("abs", "h_pol"), Anchor("abs", "h_login"),
     Anchor("abs", "h_tech"), Anchor("abs", "h_esp")}
RespostasHome == {None} \cup { Some(a) : a \in SeqsUpTo(Ancoras, MaxAnchors) }
SitesGenericos == {SiteA, "sB"}

CallDescobrirSecoes ==
    /\ call = NoCall
    /\ \E url_site \in SitesGenericos, resposta \in RespostasHome :
        call' = [op |-> "descobrir_secoes_site", url_site |-> url_site,
                 resposta |-> resposta,
                 resultado |-> descobrir_secoes(url_site, resposta)]
    /\ CallUnchanged

\* one pass over one generic site: the domain's cache is empty or holds an
\* earlier discovery made up to MaxIdade days before, the configured
\* interval is one day or the default, and the homepage fetch, when the
\* pass makes it, succeeds or fails
MaxIdade == 8
Idades == 0..(MaxIdade * TicksPerDay)
DiasConfigurados == {1, REDESCOBRIR_SECOES_DIAS}
CachesDeSecoes(t) ==
    {None} \cup { Some([secoes |-> descobrir_secoes_site(s, TRUE),
                        descoberto_em |-> t - idade]) :
                    s \in SitesGenericos, idade \in Idades }

CallSecoesDoSite ==
    /\ call = NoCall
    /\ \E f \in InitialFiles, site \in SitesGenericos, dias \in DiasConfigurados,
          ok \in BOOLEAN, t \in {0, MaxTime} :
        \E cache \in CachesDeSecoes(t) :
            LET config0 == [f EXCEPT
                              !.sites_monitorados = <<site>>,
                              !.secoes_descobertas[Dominio(site)] = cache,
                              !.configuracao_avancada.redescobrir_secoes_dias = dias]
                falhas == IF ok THEN {}
                          ELSE {[tipo |-> "await_secoes", pagina |-> site]}
                p0 == ExecutarInicio(config0, FALSE, {}, t)
            IN  call' = [op |-> "secoes_do_site", site |-> site, cache |-> cache,
                         dias |-> dias, ok |-> ok, t |-> t,
                         descobre |-> (p0.pc = "await_secoes"),
                         visitas |-> Visitas(p0, falhas, t),
                         passe |-> ExecutarSitesFalhas(p0, falhas, t)]
    /\ CallUnchanged

\* configs as dicts: any subset of the known keys and of the unknown key
\* "versao", with the advanced options whole, with one key only, or with an
\* unknown key; a backup file that exists or not
Restrict(f, K) == [k \in K |-> f[k]]
ConfigCompleta ==
    [DEFAULT_CONFIG EXCEPT !.telegram_owner_id = Some(Owner),
                           !.palavras_chave = <<"voto">>,
                           !.sites_monitorados = <<SiteA>>,
                           !.monitoramento_ativo = FALSE]
        @@ ("versao" :> "v2")
Avancadas ==
    {[dias_filtro_noticias |-> 5, redescobrir_secoes_dias |-> 1],
     [dias_filtro_noticias |-> 5],
     [dias_filtro_noticias |-> 5, redescobrir_secoes_dias |-> 1, nivel |-> "alto"]}
ConfigsComoDict ==
    { Restrict(c, K) :
        c \in { [ConfigCompleta EXCEPT !.configuracao_avancada = a] : a \in Avancadas },
        K \in SUBSET (DOMAIN ConfigCompleta) }
Backups ==
    {None, Some([palavras_chave |-> <<"to">>, sites_monitorados |-> <<"sB">>,
                 secoes_descobertas |-> DEFAULT_CONFIG.secoes_descobertas,
                 monitoramento_ativo |-> FALSE])}

CallSalvarCarregar ==
    /\ call = NoCall
    /\ \E c \in ConfigsComoDict, backup \in Backups, em_loop \in BOOLEAN :
        call' = [op |-> "salvar_carregar", c |-> c, backup |-> backup,
                 em_loop |-> em_loop,
                 resultado |-> carregar_config_dados(salvar_config_dados(c),
                                                     backup, em_loop)]
    /\ CallUnchanged

\* one pass over the fixed sections of g1, whose two articles that hold the
\* keyword are dated instant 0, with the recency window of the advanced
\* options set to one day, to the default or to five days
JanelasConfiguradas == {1, DIAS_FILTRO_NOTICIAS, 5}

CallPasseComJanela ==
    /\ call = NoCall
    /\ \E f \in InitialFiles, dias \in JanelasConfiguradas, t \in 0..MaxTime :
        LET config0 == [f EXCEPT
                          !.sites_monitorados = <<"g1">>,
                          !.configuracao_avancada.dias_filtro_noticias = dias]
        IN  call' = [op |-> "passe_com_janela", config0 |-> config0,
                     dias |-> dias, t |-> t,
                     passe |-> ExecutarAteMerge(config0, FALSE, {"voto"}, TRUE, t)]
    /\ CallUnchanged

\* configs a pass may load: with or without an owner, keywords and the
\* monitoring flag, over a history that is empty or holds one entry
ConfigsDePortao ==
    { [f EXCEPT !.telegram_owner_id = owner,
                !.palavras_chave = palavras,
                !.monitoramento_ativo = ativo,
                !.historico_links = historico] :
        f \in InitialFiles, owner \in {None, Some(Owner)},
        palavras \in {<<>>, <<"voto">>}, ativo \in BOOLEAN,
        historico \in HistoricosDePasse }

\* executar_monitoramento up to its first await on a config file config0:
\* the pass it leaves (IdlePass when it returned [] at a gate) and the file
\* afterwards, written at bot.py:1039 only when the block reached the merge
CallPasseNoPortao ==
    /\ call = NoCall
    /\ \E config0 \in ConfigsDePortao, imediato \in BOOLEAN,
          falha \in {{}, {"voto"}}, t \in 0..MaxTime :
        LET p == ExecutarInicio(config0, imediato, falha, t)
        IN  call' = [op |-> "passe_no_portao", config0 |-> config0,
                     imediato |-> imediato, falha |-> falha, t |-> t,
                     passe |-> p,
                     arquivo |-> IF p.pc = "await_report" THEN p.config
                                 ELSE config0]
    /\ CallUnchanged

\* a user who is not the owner
Estranho == 2

\* processar_mensagem on the text "@item" sent by user_id while the config
\* file is arquivo: the owner test on what carregar_config returns, then
\* adicionar_itens and its salvar_config
processar_mensagem(arquivo, user_id, itens) ==
    IF ~verificar_proprietario_em(carregar_arquivo(arquivo), user_id)
    THEN arquivo
    ELSE Arquivo(adicionar_itens(carregar_arquivo(arquivo), itens))

\* a message "@item" from the owner or from another user, received when the
\* file of a config with an owner is whole (n = -1 or n = Tamanho) or was
\* left cut by an interrupted salvar_config
CallProcessarMensagem ==
    /\ call = NoCall
    /\ \E f \in InitialFiles, h \in HistoricosDePasse, n \in -1..Tamanho,
          user_id \in {Owner, Estranho}, item \in {SiteA, "voto", "sB"} :
        LET antigo == [f EXCEPT !.historico_links = h]
            arquivo == salvar_config_interrompido(Arquivo(antigo), antigo, n)
        IN  call' = [op |-> "processar_mensagem", antigo |-> antigo, n |-> n,
                     arquivo |-> arquivo, user_id |-> user_id, item |-> item,
                     aceito |-> verificar_proprietario_em(
                                    carregar_arquivo(arquivo), user_id),
                     depois |-> processar_mensagem(arquivo, user_id, <<item>>)]
    /\ CallUnchanged

\* DEFAULT_CONFIG as the object it is.  carregar_config returns
\* DEFAULT_CONFIG.copy(), a shallow copy, when there is no file (arquivo =
\* None), and puts config[key] = value for every key the file lacks: in both
\* cases the lists and dicts of the result are the very objects of
\* DEFAULT_CONFIG.  padrao is the content of DEFAULT_CONFIG at the time;
\* partilha holds the keys whose value is shared with it
carregar_config_objetos(arquivo, padrao) ==
    IF arquivo = None
    THEN [valor |-> padrao, partilha |-> DOMAIN padrao]
    ELSE [valor |-> [k \in DOMAIN arquivo[1] \cup DOMAIN padrao |->
                        IF k \in DOMAIN arquivo[1] THEN arquivo[1][k] ELSE padrao[k]],
          partilha |-> DOMAIN padrao \ DOMAIN arquivo[1]]

\* a change made in place (append, item assignment) to config[k] is a change
\* of DEFAULT_CONFIG[k] when the two are one object
PadraoApos(padrao, c, novo, chaves) ==
    [k \in DOMAIN padrao |->
        IF k \in c.partilha \cap chaves THEN novo[k] ELSE padrao[k]]

\* one operation on the file and on DEFAULT_CONFIG: adicionar_itens appends
\* to config["palavras_chave"] or config["sites_monitorados"] and saves; a
\* pass that is not gated records a URL with adicionar_ao_historico, which
\* assigns into config["historico_links"], and saves
AplicarOp(estado, operacao) ==
    LET c == carregar_config_objetos(estado.arquivo, estado.padrao)
    IN  IF operacao.op = "adicionar"
        THEN LET novo == adicionar_itens(c.valor, <<operacao.item>>)
             IN  [arquivo |-> Some(salvar_config_dados(novo)),
                  padrao |-> PadraoApos(estado.padrao, c, novo,
                                        {"palavras_chave", "sites_monitorados"})]
        ELSE IF c.valor.telegram_owner_id = None \/ c.valor.palavras_chave = <<>>
        THEN estado
        ELSE LET novo == [c.valor EXCEPT !.historico_links =
                             adicionar_ao_historico(operacao.item, None, "Geral", @, 0)]
             IN  [arquivo |-> Some(salvar_config_dados(novo)),
                  padrao |-> PadraoApos(estado.padrao, c, novo, {"historico_links"})]

RECURSIVE AplicarOps(_, _)
AplicarOps(estado, operacoes) ==
    IF operacoes = <<>> THEN estado
    ELSE AplicarOps(AplicarOp(estado, Head(operacoes)), Tail(operacoes))

\* the config file at the start: none, a complete one, one written before
\* the history existed, one without the two lists
MaxOperacoes == 2
ChavesPadrao == DOMAIN DEFAULT_CONFIG
ArquivosDePadroes ==
    {None} \cup { Some(Restrict(ConfigCompleta, K)) :
                     K \in {ChavesPadrao, ChavesPadrao \ {"historico_links"},
                            ChavesPadrao \ {"palavras_chave", "sites_monitorados"}} }
OperacoesDePadroes ==
    {[op |-> "adicionar", item |-> "to"], [op |-> "adicionar", item |-> "sB"],
     [op |-> "registrar", item |-> "u3"]}

\* some operations from process start on, then carregar_config with the
\* config file absent
CallPadroes ==
    /\ call = NoCall
    /\ \E arquivo \in ArquivosDePadroes,
          operacoes \in SeqsUpTo(OperacoesDePadroes, MaxOperacoes) :
        LET fim == AplicarOps([arquivo |-> arquivo, padrao |-> DEFAULT_CONFIG],
                              operacoes)
        IN  call' = [op |-> "padroes", arquivo |-> arquivo,
                     operacoes |-> operacoes, padrao |-> fim.padrao,
                     sem_arquivo |-> carregar_config_objetos(None, fim.padrao).valor]
    /\ CallUnchanged

\* The module-level config_data = carregar_config() of bot.py:1750 beside
\* the file and DEFAULT_CONFIG.  estado.global is that dict: the values of
\* the keys it shares with DEFAULT_CONFIG follow DEFAULT_CONFIG, the others
\* stay as loaded at import.  monitoramento_command assigns
\* config["monitoramento_ativo"] in the config it has just loaded and saves
AplicarOpGlobal(estado, operacao) ==
    LET c == carregar_config_objetos(estado.arquivo, estado.padrao)
        e == IF operacao.op = "monitoramento"
             THEN IF c.valor.palavras_chave = <<>>
                  THEN [arquivo |-> estado.arquivo, padrao |-> estado.padrao]
                  ELSE [arquivo |-> Some(salvar_config_dados(
                                        [c.valor EXCEPT !.monitoramento_ativo = ~@])),
                        padrao |-> estado.padrao]
             ELSE AplicarOp([arquivo |-> estado.arquivo, padrao |-> estado.padrao],
                            operacao)
    IN  [arquivo |-> e.arquivo, padrao |-> e.padrao,
         global |-> [valor |-> [k \in DOMAIN estado.global.valor |->
                                   IF k \in estado.global.partilha
                                   THEN e.padrao[k] ELSE estado.global.valor[k]],
                     partilha |-> estado.global.partilha]]

RECURSIVE AplicarOpsGlobal(_, _)
AplicarOpsGlobal(estado, operacoes) ==
    IF operacoes = <<>> THEN estado
    ELSE AplicarOpsGlobal(AplicarOpGlobal(estado, Head(operacoes)), Tail(operacoes))

\* start_command: the file afterwards; an owner is registered only when
\* config_data has none, and then config_data is what salvar_config writes
start_command(estado, user_id) ==
    IF estado.global.valor.telegram_owner_id # None
    THEN estado.arquivo
    ELSE Some(salvar_config_dados(
                 [estado.global.valor EXCEPT !.telegram_owner_id = Some(user_id)]))

\* the config file at process start: none, or one left without an owner
ArquivosSemDono ==
    {None, Some(DEFAULT_CONFIG),
     Some([DEFAULT_CONFIG EXCEPT !.palavras_chave = <<"voto">>])}
OperacoesAntesDoDono ==
    {[op |-> "adicionar", item |-> "to"], [op |-> "adicionar", item |-> "sB"],
     [op |-> "monitoramento", item |-> ""]}

\* process start, some commands of a user while no owner is registered,
\* then /start
CallStartCommand ==
    /\ call = NoCall
    /\ \E arquivo \in ArquivosSemDono,
          operacoes \in SeqsUpTo(OperacoesAntesDoDono, MaxOperacoes) :
        LET fim == AplicarOpsGlobal(
                       [arquivo |-> arquivo, padrao |-> DEFAULT_CONFIG,
                        global |-> carregar_config_objetos(arquivo, DEFAULT_CONFIG)],
                       operacoes)
        IN  call' = [op |-> "start_command", arquivo |-> arquivo,
                     operacoes |-> operacoes,
                     registrou |-> fim.global.valor.telegram_owner_id = None,
                     antes |-> carregar_config_objetos(fim.arquivo, fim.padrao).valor,
                     depois |-> start_command(fim, Owner)]
    /\ CallUnchanged

InitCalls ==
    /\ disk = DEFAULT_CONFIG
    /\ config_data = disk
    /\ pass = [id \in PassIds |-> IdlePass]
    /\ running = FALSE
    /\ task = "none"
    /\ now = 0
    /\ returned = [u \in MainUrls |-> 0]
    /\ started = 0
    /\ commands = 0
    /\ call = NoCall

NextCalls ==
    \/ CallJaFoiNotificado
    \/ CallLimparHistorico
    \/ CallEhNoticiaRecente
    \/ CallMonitorarNoticia
    \/ CallExecutarMonitoramento
    \/ CallVerificarPalavrasChave
    \/ CallExtrairData
    \/ CallSalvarConfigInterrompido
    \/ CallPasseSemGravar
    \/ CallEnviarNotificacoes
    \/ CallBuscarNoticias
    \/ CallGravacoes
    \/ CallFeedRaises
    \/ CallPasseComFalhas

SpecCalls == InitCalls /\ [][NextCalls]_vars

\* the same for the calls on the sections of a site and on the configuration
NextConfigCalls ==
    \/ CallDescobrirSecoes
    \/ CallSecoesDoSite
    \/ CallSalvarCarregar
    \/ CallPasseComJanela
    \/ CallPasseNoPortao
    \/ CallProcessarMensagem
    \/ CallPadroes
    \/ CallStartCommand

SpecConfigCalls == InitCalls /\ [][NextConfigCalls]_vars

(***************************************************************************)
(* The owner's messages alone: a sequence of up to MaxComandos messages,   *)
(* each an '@' or a '#' followed by up to MaxItens comma-separated pieces. *)
(* call keeps which command came last and whether it named an item twice.  *)
(***************************************************************************)
MaxComandos == 3
MaxItens == 2
Pedacos == {"voto", " voto ", "Voto", "to", " ", SiteA, "sB"}
TextosDeComando == SeqsUpTo(Pedacos, MaxItens)

\* processar_mensagem with a text that starts with '@'
ComandoAdicionar ==
    /\ commands < MaxComandos
    /\ verificar_proprietario(Owner)
    /\ \E pedacos \in TextosDeComando :
        LET itens == ItensDoTexto(pedacos)
        IN  /\ disk' = IF itens = <<>> THEN disk
                       ELSE adicionar_itens(carregar_config, itens)
            /\ call' = [op |-> "adicionar_itens", repetido |-> ~Distinct(itens)]
    /\ commands' = commands + 1
    /\ UNCHANGED <<config_data, pass, running, task, now, returned, started>>

\* processar_mensagem with a text that starts with '#'
ComandoRemover ==
    /\ commands < MaxComandos
    /\ verificar_proprietario(Owner)
    /\ \E pedacos \in TextosDeComando :
        LET itens == ItensDoTexto(pedacos)
        IN  /\ disk' = IF itens = <<>> THEN disk
                       ELSE remover_itens(carregar_config, itens)
            /\ call' = [op |-> "remover_itens", repetido |-> ~Distinct(itens)]
    /\ commands' = commands + 1
    /\ UNCHANGED <<config_data, pass, running, task, now, returned, started>>

NextComandos ==
    \/ ComandoAdicionar
    \/ ComandoRemover

SpecComandos == Init /\ [][NextComandos]_vars

(***************************************************************************)
(* Properties.                                                             *)
(***************************************************************************)
Urls(resultados) == { resultados[i].url : i \in 1..Len(resultados) }

\* C1: over passes run one after another by the loop, at any spacing and
\* with no command from the user, no URL is returned more than once; stated
\* for the runs that return at most MAX_LINKS_HISTORICO different URLs, in
\* which the size limit of the history evicts nothing
NoDuplicateNotification ==
    Cardinality({ u \in MainUrls : returned[u] > 0 }) <= MAX_LINKS_HISTORICO =>
        \A u \in MainUrls : returned[u] <= 1

\* C2: after a pass in which nothing failed, a second pass run at once on
\* the config the first one persisted, against the same content, returns
\* an empty result list
Idempotence ==
    (call.op = "executar_monitoramento" /\ call.falha = {} /\ call.ok) =>
        ExecutarAteMerge(ConfigFinal(call.resultado, call.t), FALSE, {}, TRUE,
                         call.t).resultados_finais = <<>>

\* C3: at most one execution of executar_monitoramento is in progress
AtMostOnePass ==
    ~(Busy("loop") /\ pass["manual"].pc \notin {"idle", "await_reply"})

\* C4: when a manual pass runs while the scheduled pass is in flight, and no
\* other command was handled, no URL is in the result list of both
RedundantInvocationSafe ==
    commands = 0 =>
        Urls(pass["loop"].resultados_finais)
            \cap Urls(pass["manual"].resultados_finais) = {}

\* C5: a step of a pass (any step that is not a command handler) leaves the
\* persisted keywords, sites and monitoramento_ativo as the handlers set them
HandlerChangesSurvive ==
    [][commands' = commands =>
          /\ disk'.palavras_chave = disk.palavras_chave
          /\ disk'.sites_monitorados = disk.sites_monitorados
          /\ disk'.monitoramento_ativo = disk.monitoramento_ativo]_vars

RecencyFilter ==
    /\ call.op = "eh_noticia_recente" =>
          /\ call.resultado =
                (\/ call.data_publicacao = None
                 \/ call.data_publicacao[1] >= Today(call.t) - 3)
          /\ (call.t = Jun20 /\ call.data_publicacao = Some(17)) => call.resultado
          /\ (call.t = Jun20 /\ call.data_publicacao = Some(16)) => ~call.resultado
    /\ call.op = "monitorar_noticia_especifica" =>
          LET m == extrair_metadados_pagina(call.url, call.ok, call.t)
          IN  (m # None /\ m[1].data_publicacao[1] < Today(call.t) - 3) =>
                  /\ call.resultado.resultado = None
                  /\ call.resultado.historico = call.historico

\* C7 witness: a fetched site article, not a duplicate and matching a
\* keyword, is dropped because its date is older than the window
RecencyFilterWitness ==
    /\ call.op = "monitorar_noticia_especifica"
    /\ call.ok
    /\ ~ja_foi_notificado(call.url, call.historico)
    /\ ArticleDate(call.url) # None
    /\ ArticleDate(call.url)[1] < Today(call.t) - 3
    /\ verificar_palavras_chave(ArticleText(call.url), <<"voto">>) # <<>>
    /\ call.resultado.resultado = None

\* C8 as stated: ja_foi_notificado is true iff the URL is a key of the
\* history or a key of the same netloc has path-token Jaccard similarity
\* strictly above 0.9
DuplicateTest ==
    call.op = "ja_foi_notificado" =>
        call.resultado =
            (\/ call.url \in Keys(call.historico)
             \/ \E k \in Keys(call.historico) :
                    /\ UrlNetloc(k) = UrlNetloc(call.url)
                    /\ 10 * Cardinality(PathTokens(call.url) \cap PathTokens(k))
                         > 9 * Cardinality(PathTokens(call.url) \cup PathTokens(k)))

\* C8 amended: ja_foi_notificado is true iff the URL is a key of the history
\* or a key of the same netloc has a lower-cased path longer than 10
\* characters, as the URL has, and path-token Jaccard similarity strictly
\* above 0.9
DuplicateTestAmended ==
    call.op = "ja_foi_notificado" =>
        call.resultado =
            (\/ call.url \in Keys(call.historico)
             \/ \E k \in Keys(call.historico) :
                    /\ UrlNetloc(k) = UrlNetloc(call.url)
                    /\ PathLen(call.url) > 10
                    /\ PathLen(k) > 10
                    /\ 10 * Cardinality(PathTokens(call.url) \cap PathTokens(k))
                         > 9 * Cardinality(PathTokens(call.url) \cup PathTokens(k)))

\* C8 witness: a URL that is no key of the history is found to be a
\* duplicate of a key that is no key-for-key copy of it
DuplicateTestWitness ==
    /\ call.op = "ja_foi_notificado"
    /\ call.url \notin Keys(call.historico)
    /\ \A k \in Keys(call.historico) : PathTokens(k) # PathTokens(call.url)
    /\ call.resultado

\* C9: after limpar_historico_antigo no entry is left whose data_notificacao
\* is missing, unparseable or older than now - 3 days, and when at most
\* MAX_LINKS_HISTORICO entries are younger, each of them is left as it was
PruningByAge ==
    call.op = "limpar_historico_antigo" =>
        LET h == call.historico
            r == call.resultado
            Velha(e) == IF e.data_notificacao \in {None, BadDate}
                        THEN TRUE
                        ELSE e.data_notificacao[2] < call.t - 3 * TicksPerDay
        IN  /\ \A j \in 1..Len(r) : ~Velha(r[j])
            /\ Cardinality({ i \in 1..Len(h) : ~Velha(h[i]) }) <= MAX_LINKS_HISTORICO =>
                   \A i \in 1..Len(h) :
                       ~Velha(h[i]) => \E j \in 1..Len(r) : r[j] = h[i]

\* C9 witness: a history with a malformed, an expired and a young entry is
\* pruned to the young entry
PruningByAgeWitness ==
    /\ call.op = "limpar_historico_antigo"
    /\ Len(call.historico) = 3
    /\ call.historico[1].data_notificacao = BadDate
    /\ call.historico[2].data_notificacao = Iso(call.t - 3 * TicksPerDay - 1)
    /\ call.historico[3].data_notificacao = Iso(call.t - 3 * TicksPerDay)
    /\ call.resultado = <<call.historico[3]>>

\* C10: the history persisted in the config file holds at most
\* MAX_LINKS_HISTORICO entries in every reachable state
HistorySizeBound ==
    Len(disk.historico_links) <= MAX_LINKS_HISTORICO

\* C11: verificar_palavras_chave returns, in the order given, exactly the
\* keywords whose lower-cased form occurs in the text with a word boundary
\* on each side; "voto" is found in "o voto popular" and not in "devotos"
WholeWordMatching ==
    call.op = "verificar_palavras_chave" =>
        LET texto == call.texto
            letra(j) == j \in 1..Len(texto) /\ texto[j] \notin {" ", "-", ".", ","}
            ocorre(k) ==
                LET w == LowerStr(KwChars(k))
                IN  \E i \in 1..Len(texto) :
                        /\ i + Len(w) - 1 <= Len(texto)
                        /\ \A j \in 1..Len(w) : texto[i + j - 1] = w[j]
                        /\ letra(i - 1) # letra(i)
                        /\ letra(i + Len(w) - 1) # letra(i + Len(w))
        IN  /\ call.resultado = SelectSeq(call.palavras_chave, ocorre)
            /\ (texto = T_voto /\ call.palavras_chave = <<"voto">>) =>
                   call.resultado = <<"voto">>
            /\ (texto = T_devotos /\ call.palavras_chave = <<"voto">>) =>
                   call.resultado = <<>>

\* C11 witness: a keyword that the text holds only as the end of a longer
\* word is left out
WholeWordMatchingWitness ==
    /\ call.op = "verificar_palavras_chave"
    /\ call.texto = <<"o", "t", "o", " ">>
    /\ call.palavras_chave = <<"to">>
    /\ call.resultado = <<>>

\* C12: the date of extrair_metadados_pagina is the first success of: the
\* first date meta tag that parses, the date extrair_data_da_url finds in
\* the URL, the first markup marker that is a date, the current date; a
\* page without meta tags whose URL holds /2025/06/19/ gets 19 June, and a
\* meta date wins over another date in the URL
DateFallbackOrder ==
    call.op = "extrair_metadados_pagina" =>
        LET p == call.pagina
            metas == { i \in 1..Len(p.meta) : Len(p.meta[i]) = 2 }
            marcas == { i \in 1..Len(p.marcadores) : p.marcadores[i].valida }
            primeiro(S) == CHOOSE i \in S : \A j \in S : i <= j
            da_url == extrair_data_da_url(p.url)
        IN  /\ call.resultado =
                  IF metas # {} THEN Some(p.meta[primeiro(metas)][2] \div TicksPerDay)
                  ELSE IF da_url # None THEN da_url
                  ELSE IF marcas # {} THEN Some(p.marcadores[primeiro(marcas)].d)
                  ELSE Some(call.t \div TicksPerDay)
            /\ (p.meta = <<>> /\ p.url.barra = Achado(TRUE, Jun19)) =>
                   call.resultado = Some(Jun19)
            /\ (metas # {} /\ da_url # None) =>
                   call.resultado = Some(p.meta[primeiro(metas)][2] \div TicksPerDay)

\* C12 witness: a page whose only meta tag does not parse, whose URL holds
\* /2025/06/19/ and whose markup holds another date, gets 19 June
DateFallbackOrderWitness ==
    /\ call.op = "extrair_metadados_pagina"
    /\ call.pagina.meta = <<BadDate>>
    /\ call.pagina.url.barra = Achado(TRUE, Jun19)
    /\ call.pagina.marcadores # <<>>
    /\ call.pagina.marcadores[1].valida
    /\ call.resultado = Some(Jun19)

\* C13: after a crash during salvar_config the file is the complete old
\* snapshot or the complete new one, and the following carregar_config
\* returns the owner and one of the two histories
AtomicPersistence ==
    call.op = "salvar_config" =>
        /\ call.arquivo \in {Arquivo(call.antigo), Arquivo(call.novo)}
        /\ call.resultado.telegram_owner_id = call.antigo.telegram_owner_id
        /\ call.resultado.historico_links \in
               {call.antigo.historico_links, call.novo.historico_links}

\* C14: stopping the monitoring leaves a pass in flight running, and no URL
\* of a result whose notification has not been sent is in the persisted
\* history of a pass that was ended
GracefulStop ==
    [][(task = "alive" /\ task' = "cancelled" /\ pass["loop"].pc # "idle") =>
          LET p == pass["loop"]
              por_enviar == IF p.pc = "await_send"
                            THEN p.idx .. Len(p.resultados_finais)
                            ELSE 1 .. Len(p.resultados_finais)
          IN  /\ pass'["loop"] = p
              /\ pass'["loop"].pc = "idle" =>
                     \A i \in por_enviar :
                         p.resultados_finais[i].url \notin Keys(disk'.historico_links)]_vars

\* C15: a pass whose salvar_config cannot write reaches its end with its
\* results, the next pass starts from a history that holds every entry of
\* that pass, and it returns none of the URLs that pass returned
PersistenceFailureHandled ==
    call.op = "passe_sem_gravar" =>
        /\ call.primeiro.pc = "await_report"
        /\ Keys(call.primeiro.config.historico_links) \subseteq
               Keys(carregar_arquivo(call.arquivo).historico_links)
        /\ Urls(call.primeiro.resultados_finais)
               \cap Urls(call.segundo.resultados_finais) = {}

\* C16: with the loop left alone no step ends its task, a raising
\* executar_monitoramento included; after the cooldown that follows an
\* exception another pass is attempted, and so is a later pass after any
\* number of passes (as long as the bound on the number of passes allows)
LoopResilience ==
    /\ [][task = "alive" => task' = "alive"]_vars
    /\ \A k \in 0..(MaxPasses - 1) :
           (pass["loop"].pc = "cooldown" /\ started = k) ~> (started > k)
    /\ \A k \in 0..(MaxPasses - 1) : (started = k) ~> (started > k)

\* C16 witness: a pass was attempted after another, none of them reached
\* its end (no ultima_verificacao was written), and the loop is alive in
\* its cooldown
LoopResilienceWitness ==
    /\ pass["loop"].pc = "cooldown"
    /\ started >= 2
    /\ disk.ultima_verificacao = None
    /\ task = "alive"
    /\ running

\* C17: enviar_notificacoes invokes the send once for each result of the
\* list, in the order of the list, also when an earlier send raises
OneNotificationPerResult ==
    call.op = "enviar_notificacoes" => call.enviados = call.resultados

\* C18: every result of buscar_noticias_google_news is a feed item in whose
\* title+description a keyword occurs as a complete word, and its matched
\* list is the list of the keywords that do
FeedWholeWord ==
    call.op = "buscar_noticias_google_news" =>
        \A i \in 1..Len(call.resultado) :
            LET r == call.resultado[i]
            IN  \E j \in 1..Len(call.palavras_chave) :
                    LET itens == FeedResults(call.palavras_chave[j], call.t)
                    IN  \E k \in 1..Len(itens) :
                            /\ itens[k].url = r.url
                            /\ r.palavras # <<>>
                            /\ r.palavras =
                                   verificar_palavras_chave(LowerStr(itens[k].texto),
                                                            call.palavras_chave)

\* positions of a checkpoint log that hold the event e
Posicoes(log, e) == { i \in 1..Len(log) : log[i] = e }

\* C19 as stated: a pass that gets past its gates writes the file once at
\* its very end and once right after each successful discovery, and nowhere
\* else
PersistenceCheckpoints ==
    (call.op = "gravacoes" /\ call.passe.pc # "idle") =>
        LET log == call.gravacoes
        IN  /\ log[Len(log)] = "salvar"
            /\ \A i \in Posicoes(log, "descoberta") : log[i + 1] = "salvar"
            /\ \A i \in Posicoes(log, "salvar") :
                   i = Len(log) \/ (i > 1 /\ log[i - 1] = "descoberta")

\* C19 amended: such a pass writes the file once after merging the results,
\* before the scan report and the notifications, once more at its very end,
\* and once right after each successful discovery, and nowhere else; a pass
\* that a gate stops writes nothing
PersistenceCheckpointsAmended ==
    call.op = "gravacoes" =>
        LET log == call.gravacoes
            merge == { i \in Posicoes(log, "salvar") :
                         i < Len(log) /\ log[i + 1] = "relatorio" }
        IN  IF call.passe.pc = "idle" THEN log = <<>>
            ELSE /\ log[Len(log)] = "salvar"
                 /\ Cardinality(merge) = 1
                 /\ \A i \in Posicoes(log, "descoberta") : log[i + 1] = "salvar"
                 /\ \A i \in Posicoes(log, "salvar") :
                        \/ i = Len(log)
                        \/ i \in merge
                        \/ (i > 1 /\ log[i - 1] = "descoberta")
                 /\ \A i \in merge :
                        /\ ~(i > 1 /\ log[i - 1] = "descoberta")
                        /\ \A j \in Posicoes(log, "notificacoes") : i < j
                 /\ Cardinality(Posicoes(log, "salvar")) =
                        Cardinality(Posicoes(log, "descoberta")) + 2

\* C19 witness: a pass that discovers the sections of its site and has
\* results to notify
PersistenceCheckpointsWitness ==
    /\ call.op = "gravacoes"
    /\ call.passe.resultados_sites # <<>>
    /\ call.gravacoes =
           <<"descoberta", "salvar", "salvar", "relatorio", "notificacoes", "salvar">>

\* C20: when the feed block of a pass raises, the final result list holds
\* no feed result, and every feed URL the pass has put into the history is
\* in the results
FailedSourceContributesNothing ==
    (call.op = "feed_raises" /\ call.levantou) =>
        LET finais == call.passe.resultados_finais
            novos == Keys(call.passe.config.historico_links) \ Keys(call.antes)
        IN  /\ \A i \in 1..Len(finais) : finais[i].secao # "Google News"
            /\ \A u \in novos \cap FeedUrls : u \in Urls(finais)

\* C21: a pass in which fetches fail still reaches the merge; a failed
\* article is not in the results and not added to the history; every section
\* page of every site is fetched, and every article link of a section page
\* that was fetched is fetched too unless it counts as already notified
FetchFailuresContained ==
    call.op = "passe_com_falhas" =>
        LET p == call.passe
            sites == call.config0.sites_monitorados
            visitadas(tipo) == { call.visitas[i].pagina :
                                   i \in { j \in 1..Len(call.visitas) :
                                             call.visitas[j].tipo = tipo } }
            paginas(site) == IF Dominio(site) \in SECOES_SITES_DOM
                             THEN { SECOES_SITES(Dominio(site))[i].url : i \in 1..3 }
                             ELSE {site}
        IN  /\ p.pc = "await_report"
            /\ \A x \in call.falhas :
                   x.tipo = "await_artigo" =>
                       /\ x.pagina \notin Urls(p.resultados_finais)
                       /\ x.pagina \in Keys(p.config.historico_links) =>
                              x.pagina \in Keys(call.antes)
            /\ \A i \in 1..Len(sites) :
                   \A pg \in paginas(sites[i]) :
                       /\ pg \in visitadas("await_links")
                       /\ [tipo |-> "await_links", pagina |-> pg] \notin call.falhas =>
                              \A k \in 1..Len(PageLinks(pg)) :
                                  eh_url_noticia(PageLinks(pg)[k], Dominio(sites[i])) =>
                                      \/ PageLinks(pg)[k] \in visitadas("await_artigo")
                                      \/ ja_foi_notificado(PageLinks(pg)[k],
                                                           p.config.historico_links)

\* C21 witness: the fetch of the first article and of the first section page
\* of the second site fail, and the pass still returns a later article of
\* the first site and fetches the remaining section pages
FetchFailuresContainedWitness ==
    /\ call.op = "passe_com_falhas"
    /\ call.config0.sites_monitorados = <<SiteA, "g1">>
    /\ call.falhas = {[tipo |-> "await_artigo", pagina |-> "u9"],
                      [tipo |-> "await_links", pagina |-> "g1"]}
    /\ Len(call.visitas) >= 6
    /\ call.visitas[3] = [tipo |-> "await_artigo", pagina |-> "u9"]
    /\ "u10" \in Urls(call.passe.resultados_finais)

Posicao(s, x) == IF \E i \in 1..Len(s) : s[i] = x
                 THEN CHOOSE i \in 1..Len(s) : s[i] = x ELSE 0

\* C23: the list a pass returns holds every result the pass accepted, once;
\* the feed results come first, in the order of the feed, and the site
\* results follow in the order in which their articles were fetched
MergeOrder ==
    call.op = "passe_com_falhas" =>
        LET finais == call.passe.resultados_finais
            urls == [i \in 1..Len(finais) |-> finais[i].url]
            do_feed(i) == finais[i].secao = "Google News"
            feed == buscar_noticias_google_news(call.config0.palavras_chave,
                                                call.falha, call.t)
            feed_urls == [i \in 1..Len(feed) |-> feed[i].url]
            limpo == limpar_historico_antigo(call.config0.historico_links, call.t)
            busca(u) == Posicao(call.visitas, [tipo |-> "await_artigo", pagina |-> u])
        IN  /\ Urls(finais) = Keys(call.passe.config.historico_links) \ Keys(limpo)
            /\ Cardinality(Urls(finais)) = Len(finais)
            /\ \A i, j \in 1..Len(finais) :
                   i < j =>
                       /\ do_feed(j) => do_feed(i)
                       /\ do_feed(j) =>
                              0 < Posicao(feed_urls, urls[i])
                              /\ Posicao(feed_urls, urls[i]) < Posicao(feed_urls, urls[j])
                       /\ ~do_feed(i) =>
                              0 < busca(urls[i]) /\ busca(urls[i]) < busca(urls[j])

\* C23 witness: two feed results followed by three site results from two
\* sites
MergeOrderWitness ==
    /\ call.op = "passe_com_falhas"
    /\ call.falhas = {}
    /\ Len(call.passe.resultados_finais) = 5
    /\ [i \in 1..5 |-> call.passe.resultados_finais[i].url]
           = <<"u8", "u3", "u10", "u6", "u12">>

\* r is s with some elements left out, the order kept
Subsequencia(r, s) ==
    \E f \in [1..Len(r) -> 1..Len(s)] :
        /\ \A i, j \in 1..Len(r) : i < j => f[i] < f[j]
        /\ \A i \in 1..Len(r) : r[i] = s[f[i]]

Range(s) == { s[i] : i \in 1..Len(s) }

\* the pages whose links a pass has asked for, in order
PaginasDeSecao(visitas) ==
    LET v == SelectSeq(visitas, LAMBDA r : r.tipo = "await_links")
    IN  [i \in 1..Len(v) |-> v[i].pagina]

\* C25: descobrir_secoes_site returns a map with 'principal' equal to the
\* site URL whenever the homepage is fetched, whatever else it found, and
\* the empty map when the fetch fails or is answered with another status;
\* the pass then reads the pages of the cached sections, if there are any,
\* and otherwise the homepage alone
SectionDiscoveryResult ==
    /\ call.op = "descobrir_secoes_site" =>
           IF call.resposta = None
           THEN call.resultado = <<>>
           ELSE Cardinality({ i \in 1..Len(call.resultado) :
                                 call.resultado[i].nome = "principal" }) = 1
                /\ \A i \in 1..Len(call.resultado) :
                       call.resultado[i].nome = "principal" =>
                           call.resultado[i].url = call.url_site
    /\ (call.op = "secoes_do_site" /\ call.descobre /\ ~call.ok) =>
           /\ PaginasDeSecao(call.visitas) =
                  IF call.cache = None THEN <<call.site>>
                  ELSE [i \in 1..Len(call.cache[1].secoes) |->
                           call.cache[1].secoes[i].url]
           /\ call.passe.config.secoes_descobertas[Dominio(call.site)] = call.cache

\* C25 witness: a homepage with two section hubs gives the two sections and
\* 'principal'
SectionDiscoveryResultWitness ==
    /\ call.op = "descobrir_secoes_site"
    /\ call.url_site = "sB"
    /\ call.resposta = Some(<<Anchor("raiz", "u13"), Anchor("abs", "h_esp")>>)
    /\ call.resultado = <<[nome |-> "politica", url |-> "u13"],
                          [nome |-> "esportes", url |-> "h_esp"],
                          [nome |-> "principal", url |-> "sB"]>>

\* C25, the fallback: the homepage fetch of a pass fails while the cache
\* holds an old map with two sections, whose pages the pass then reads
SectionDiscoveryFallbackReached ==
    /\ call.op = "secoes_do_site"
    /\ call.descobre
    /\ ~call.ok
    /\ call.cache # None
    /\ PaginasDeSecao(call.visitas) = <<"u13", "h_esp", "sB">>

\* C26: every section other than 'principal' in the map of
\* descobrir_secoes_site is the first anchor of the homepage, in document
\* order, whose path holds one of the section's padroes and which
\* eh_url_noticia does not take for an article; no such section URL is an
\* article URL
SectionHubsOnly ==
    (call.op = "descobrir_secoes_site" /\ call.resposta # None) =>
        LET links == call.resposta[1]
            dominio == Dominio(call.url_site)
            padroes(nome) ==
                LET s == CHOOSE s \in Range(secoes_procurar) : s.secao = nome
                IN  Range(s.padroes)
            serve(i, nome) ==
                /\ links[i].forma # "outro"
                /\ \E w \in padroes(nome) : PathContem(links[i].url, w)
                /\ ~eh_url_noticia(links[i].url, dominio)
        IN  \A e \in Range(call.resultado) :
                e.nome # "principal" =>
                    /\ ~eh_url_noticia(e.url, dominio)
                    /\ \E i \in 1..Len(links) :
                           /\ serve(i, e.nome)
                           /\ \A j \in 1..(i - 1) : ~serve(j, e.nome)
                           /\ e.url = links[i].url

\* a pass leaves the homepage fetch of descobrir_secoes_site with a new
\* section map for the domain of its site
Descobriu(id) ==
    /\ pass[id].pc = "await_secoes"
    /\ pass'[id].config.secoes_descobertas # pass[id].config.secoes_descobertas

\* C27: a pass asks descobrir_secoes_site for the sections of a generic
\* site only when the domain has no cached map or the cached map is at
\* least redescobrir_secoes_dias days old; and a discovery that finds
\* sections comes at least that many days after the last one that did, the
\* one whose map the file holds
SectionCacheFreshness ==
    [][/\ call'.op = "secoes_do_site" =>
              (call'.descobre =>
                   \/ call'.cache = None
                   \/ call'.t - call'.cache[1].descoberto_em
                          >= call'.dias * TicksPerDay)
       /\ \A id \in PassIds :
              Descobriu(id) =>
                  LET guardado == disk.secoes_descobertas[
                                      Dominio(pass[id].config.sites_monitorados[
                                                  pass[id].site_idx])]
                      dias == pass[id].config.configuracao_avancada.redescobrir_secoes_dias
                  IN  \/ guardado = None
                      \/ now - guardado[1].descoberto_em >= dias * TicksPerDay]_vars

\* C28: after any sequence of '@' and '#' commands on lists that hold no
\* entry twice, the keyword list and the site list in the file hold no
\* entry twice, also when a command names one item more than once
ConfigListUniqueness ==
    /\ Distinct(disk.palavras_chave)
    /\ Distinct(disk.sites_monitorados)

\* C28 witness: the last of several commands was an '@' that named an item
\* twice, and the file holds three keywords and two sites
ConfigListUniquenessWitness ==
    /\ call.op = "adicionar_itens"
    /\ call.repetido
    /\ commands > 1
    /\ Len(disk.palavras_chave) = 3
    /\ Len(disk.sites_monitorados) = 2

\* C29: carregar_config after salvar_config(c) returns c with every key of
\* c and its value kept, unknown keys included, and with every key that c
\* lacks, at the top level and inside configuracao_avancada, at its default
ConfigRoundTrip ==
    call.op = "salvar_carregar" =>
        LET c == call.c
            r == call.resultado
            padrao == DEFAULT_CONFIG.configuracao_avancada
        IN  /\ DOMAIN r = DOMAIN c \cup DOMAIN DEFAULT_CONFIG
            /\ \A k \in DOMAIN c \ {"configuracao_avancada"} : r[k] = c[k]
            /\ \A k \in DOMAIN DEFAULT_CONFIG \ DOMAIN c : r[k] = DEFAULT_CONFIG[k]
            /\ "configuracao_avancada" \in DOMAIN c =>
                   LET a == c.configuracao_avancada
                       b == r.configuracao_avancada
                   IN  /\ DOMAIN b = DOMAIN a \cup DOMAIN padrao
                       /\ \A k \in DOMAIN a : b[k] = a[k]
                       /\ \A k \in DOMAIN padrao \ DOMAIN a : b[k] = padrao[k]

\* C30: a pass accepts a dated article that holds a keyword exactly when
\* its date is no more than dias_filtro_noticias days, as stored in the
\* advanced options of the config, before the day of the pass; so another
\* stored value gives another set of accepted articles
ConfigurableRecencyWindow ==
    call.op = "passe_com_janela" =>
        \A u \in {"u6", "u12"} :
            u \in Urls(call.passe.resultados_finais)
                <=> ArticleDate(u)[1] >= Today(call.t) - call.dias

\* C31: once the /monitoramento command has made monitoring active (the
\* flag in the file and manager.running both true), the loop executes a
\* scheduled pass, unless the owner switches monitoring off again first
\* (or the passes the model allows are used up)
ActivationLiveness ==
    (commands > 0 /\ running /\ disk.monitoramento_ativo /\ started < MaxPasses)
        ~> (pass["loop"].pc # "idle" \/ ~running)

\* the URLs of the results of a pass for which enviar_notificacoes has not
\* yet invoked the send
Pendentes(p) ==
    CASE p.pc = "await_send" ->
             { p.resultados_finais[i].url : i \in (p.idx + 1)..Len(p.resultados_finais) }
      [] p.pc = "await_report" -> Urls(p.resultados_finais)
      [] OTHER -> Urls(p.resultados_google) \cup Urls(p.resultados_sites)

\* C32: when a pass ends, however it ends (last send done, a send that
\* raises, the task cancelled), no URL whose notification it has not sent
\* is in the history of the file
NoSilentSuppression ==
    [][\A id \in PassIds :
           (pass[id].pc # "idle" /\ pass'[id].pc = "idle") =>
               Pendentes(pass[id]) \cap Keys(disk'.historico_links) = {}]_vars

\* C33: monitorar_noticia_especifica leaves the history as it was whenever it
\* returns None, and when it returns a result the history afterwards is the
\* history before, every entry unchanged, plus exactly one new entry whose
\* key is the URL of the article (which was no key before)
HistoryOnlyOnMatch ==
    call.op = "monitorar_noticia_especifica" =>
        LET antes == call.historico
            depois == call.resultado.historico
        IN  /\ call.resultado.resultado = None => depois = antes
            /\ call.resultado.resultado # None =>
                  /\ call.resultado.resultado[1].url = call.url
                  /\ call.url \notin Keys(antes)
                  /\ Len(depois) = Len(antes) + 1
                  /\ \A i \in 1..Len(antes) : depois[i] = antes[i]
                  /\ depois[Len(depois)].url = call.url
                  /\ Keys(depois) = Keys(antes) \cup {call.url}

\* C33 witness: an article matched while the history already held another
\* entry
HistoryOnlyOnMatchWitness ==
    /\ call.op = "monitorar_noticia_especifica"
    /\ call.historico # <<>>
    /\ call.resultado.resultado # None
    /\ Len(call.resultado.historico) = 2

\* C33 witness of the other case: a fetched article with no keyword in it
\* returns None over a history that holds an entry
HistoryUntouchedWitness ==
    /\ call.op = "monitorar_noticia_especifica"
    /\ call.ok
    /\ call.historico # <<>>
    /\ ~ja_foi_notificado(call.url, call.historico)
    /\ call.resultado.resultado = None

\* C34: a scheduled pass begun while monitoramento_ativo is false, and any
\* pass begun without an owner or with no keyword, returns the empty list
\* with no feed result, no fetch or send pending and the config file as it
\* was (the pruned history is not written); an immediate pass with an owner
\* and a keyword goes on although monitoramento_ativo is false
GatedPassNoEffect ==
    call.op = "passe_no_portao" =>
        LET c == call.config0
            bloqueado == \/ (~call.imediato /\ ~c.monitoramento_ativo)
                         \/ c.telegram_owner_id = None
                         \/ c.palavras_chave = <<>>
        IN  /\ bloqueado =>
                  /\ call.passe = IdlePass
                  /\ call.arquivo = c
            /\ (/\ call.imediato
                /\ ~c.monitoramento_ativo
                /\ c.telegram_owner_id # None
                /\ c.palavras_chave # <<>>) =>
                  /\ call.passe.pc # "idle"
                  /\ call.passe.imediato

\* C34 witness: a scheduled pass over a complete config with the flag off,
\* whose history held an entry old enough to be pruned, returned at the gate
GatedPassNoEffectWitness ==
    /\ call.op = "passe_no_portao"
    /\ ~call.imediato
    /\ ~call.config0.monitoramento_ativo
    /\ call.config0.telegram_owner_id # None
    /\ call.config0.palavras_chave # <<>>
    /\ limpar_historico_antigo(call.config0.historico_links, call.t)
           # call.config0.historico_links
    /\ call.passe = IdlePass
    /\ call.arquivo = call.config0

\* C34 witness of the immediate pass: the flag is off and the pass runs
ImmediatePassNotGated ==
    /\ call.op = "passe_no_portao"
    /\ call.imediato
    /\ ~call.config0.monitoramento_ativo
    /\ call.passe.pc # "idle"

\* C35: once an owner has been persisted, verificar_proprietario is true only
\* for a message from that owner, and a message from another user leaves the
\* config file as it was, also when the file cannot be parsed
OwnerGate ==
    (call.op = "processar_mensagem" /\ call.antigo.telegram_owner_id # None) =>
        /\ call.aceito => Some(call.user_id) = call.antigo.telegram_owner_id
        /\ Some(call.user_id) # call.antigo.telegram_owner_id =>
               call.depois = call.arquivo

\* the owner gate does hold as long as the config file is a whole document
OwnerGateOnWholeFile ==
    (/\ call.op = "processar_mensagem"
     /\ call.antigo.telegram_owner_id # None
     /\ call.arquivo.escrito = Tamanho) =>
        /\ call.aceito <=> Some(call.user_id) = call.antigo.telegram_owner_id
        /\ Some(call.user_id) # call.antigo.telegram_owner_id =>
               call.depois = call.arquivo

\* C36: no sequence of operations changes DEFAULT_CONFIG, so carregar_config
\* with no config file returns an empty keyword list, an empty site list and
\* an empty history
DefaultsImmutable ==
    call.op = "padroes" =>
        /\ call.padrao = DEFAULT_CONFIG
        /\ call.sem_arquivo.palavras_chave = <<>>
        /\ call.sem_arquivo.sites_monitorados = <<>>
        /\ call.sem_arquivo.historico_links = <<>>

\* DEFAULT_CONFIG does stay as written when the file every operation loaded
\* had all the keys
DefaultsKeptWithCompleteFile ==
    (/\ call.op = "padroes"
     /\ call.arquivo # None
     /\ ChavesPadrao \subseteq DOMAIN call.arquivo[1]) =>
        call.padrao = DEFAULT_CONFIG

\* C37: when start_command registers the first owner, the config file
\* afterwards holds the Config persisted just before the command with
\* telegram_owner_id set and nothing else changed
StartChangesOnlyOwner ==
    (call.op = "start_command" /\ call.registrou) =>
        /\ call.depois # None
        /\ call.depois[1] =
               [call.antes EXCEPT !.telegram_owner_id = Some(Owner)]

\* /start right after process start, before any other command, does change
\* the owner alone
StartAtOnceChangesOnlyOwner ==
    (call.op = "start_command" /\ call.registrou /\ call.operacoes = <<>>) =>
        /\ call.depois # None
        /\ call.depois[1] =
               [call.antes EXCEPT !.telegram_owner_id = Some(Owner)]

====
